---- MODULE Spec2Model ----
(***************************************************************************)
(* Memory evolution and semantic linking (memoryEvolutionService.js,       *)
(* memoryService.js, embeddingService.js).                                 *)
(*                                                                         *)
(* Numbers: importance and similarity are JavaScript doubles in [0,1]; the *)
(* model keeps them in thousandths (0.01 is 10, 0.7 is 700, 1.0 is 1000).  *)
(* Dates are day numbers.                                                  *)
(***************************************************************************)
EXTENDS Integers, Sequences, FiniteSets, TLC

VARIABLES
    memories,   \* the Memory table: id -> row (prisma.memory)
    links,      \* the MemoryLink table: a set of rows (prisma.memoryLink)
    nextId,     \* the next fresh memory id
    now,        \* the current day (new Date())
    similarityThreshold, \* MemoryEvolutionService.similarityThreshold
    lastOp,     \* what the last call returned (or that it threw)
    groups,     \* the last consolidation run: each seed it took with the rows it claimed
    purged,     \* the rows removed by the last decayMemories deleteMany
    executions, \* the task and request executions in flight: number -> where it is
    fired,      \* how many executions have started
    cronService \* the CronService instance: isRunning, jobs, and the tasks node-cron made

vars == <<memories, links, nextId, now, similarityThreshold, lastOp, groups, purged, executions, fired,
          cronService>>

----------------------------------------------------------------------------
(* Bounds of the model *)

MaxMem == 3        \* memory ids are 1..MaxMem
ConsolidationCorpus == 3   \* memories in the store when the consolidation runs start
LinksCorpus == 2    \* memories the seeding leaves, at most, when the link runs start
TransferCorpus == 2   \* memories in the store when the transfer runs start
MaxStored == 4     \* a transfer stops the model when the store would grow beyond this
DecayCorpus == 2   \* memories in the store when the decay runs start
FindCorpus == 12    \* memories in the store, at most, when similar memories are looked up
StartDay == 400    \* the day the model starts on
MaxTicks == 1      \* days the clock may advance
MaxRuns == 2       \* task and request executions that may start
MaxStarts == 2     \* start() calls that find the service stopped

(* Program constants, in thousandths where they are fractions *)

DecayRate == 10              \* MEMORY_DECAY_RATE || 0.01
MaxMemoryAge == 365          \* MAX_MEMORY_AGE_DAYS || 365
ArchiveThreshold == 100      \* importance: { lte: 0.1 }
PurgeThreshold == 50         \* importance: { lte: 0.05 }
PurgeAccessCount == 1        \* accessCount: { lte: 1 }
ImportanceCap == 1000        \* Math.min(1, ...)
EvolutionDefaultThreshold == 700   \* SIMILARITY_THRESHOLD || 0.7
ServiceDefaultThreshold == 300     \* SIMILARITY_THRESHOLD || 0.3
SimilarLimit == 10           \* .slice(0, 10)
TransferFloor == 500         \* importance: { gte: 0.5 }

MemIds == 1..MaxMem
NoAgent == 0
NoMetadata == {}

----------------------------------------------------------------------------
(* Generic helpers *)

Min(a, b) == IF a <= b THEN a ELSE b

Restrict(f, S) == [x \in S |-> f[x]]

\* Every sequence that lists the elements of S exactly once.
Orderings(S) ==
    {s \in [1..Cardinality(S) -> S] : \A i, j \in DOMAIN s : i # j => s[i] # s[j]}

\* The ids of S in ascending order (the order rows were inserted in).
RECURSIVE AscendingSeq(_)
AscendingSeq(S) ==
    IF S = {} THEN <<>>
    ELSE LET m == CHOOSE x \in S : \A y \in S : x <= y
         IN <<m>> \o AscendingSeq(S \ {m})

RECURSIVE SumSeq(_)
SumSeq(s) == IF s = <<>> THEN 0 ELSE Head(s) + SumSeq(Tail(s))

----------------------------------------------------------------------------
(* Embeddings.  The embedder is a black box text -> vector; a content atom *)
(* stands for a text and Embed gives its vector.  A stored embedding is    *)
(* null, the array itself, or the text JSON.stringify made of it.          *)

\* "diagonal" is similar to "east" (0.704) and to "north" (0.710), which are
\* not similar to each other (0).
Atoms == {"east", "north", "diagonal"}

Embed(atom) ==
    CASE atom = "east" -> <<1, 0>>
      [] atom = "north" -> <<0, 1>>
      [] atom = "diagonal" -> <<119, 120>>

NullEmbedding == [repr |-> "null", vec |-> <<>>]
ArrayEmbedding(v) == [repr |-> "array", vec |-> v]
\* JSON.stringify(embedding)
JsonStringify(v) == [repr |-> "string", vec |-> v]
\* JSON.parse(text) of a stringified vector gives the vector back
JsonParse(e) == e.vec

RECURSIVE Digits(_)
Digits(n) == IF n < 10 THEN 1 ELSE 1 + Digits(n \div 10)

\* embedding.length: the elements of an array, the characters of a string
\* ("[1,0]" has two brackets, one comma between elements, and the digits)
EmbeddingLength(e) ==
    IF e.repr = "array" THEN Len(e.vec)
    ELSE 2 + (IF Len(e.vec) = 0 THEN 0 ELSE Len(e.vec) - 1)
           + SumSeq([i \in 1..Len(e.vec) |-> Digits(e.vec[i])])

Sqrt(n) == CHOOSE r \in 0..n : r * r <= n /\ n < (r + 1) * (r + 1)

RECURSIVE Dot(_, _)
Dot(a, b) == IF a = <<>> THEN 0 ELSE Head(a) * Head(b) + Dot(Tail(a), Tail(b))

\* vectors no text embeds to: of zero norm, of another length, of another
\* norm, empty
OtherVectors == {<<0, 0>>, <<2, 0>>, <<1>>, <<0>>, <<1, 0, 0>>, <<0, 0, 0>>, <<>>}

Vectors == {Embed(atom) : atom \in Atoms} \cup OtherVectors

\* What a call of calculateSimilarity does: it throws, or returns NaN, or
\* returns a number (in thousandths).
SimThrows == [throws |-> TRUE, nan |-> FALSE, value |-> 0]
SimNaN == [throws |-> FALSE, nan |-> TRUE, value |-> 0]
SimValue(v) == [throws |-> FALSE, nan |-> FALSE, value |-> v]

\* the loop and the quotient of calculateSimilarity, for two arrays of the
\* same length: dotProduct / (norm1 * norm2), or 0 when a norm is 0
Cosine(v1, v2) ==
    LET norm1 == Sqrt(Dot(v1, v1))
        norm2 == Sqrt(Dot(v2, v2))
    IN IF norm1 = 0 \/ norm2 = 0 THEN SimValue(0)
       ELSE SimValue((Dot(v1, v2) * 1000) \div (norm1 * norm2))

\* Cosine over the vectors of the model, computed once
CosineOf ==
    [v1 \in Vectors, v2 \in Vectors |->
        IF Len(v1) = Len(v2) THEN Cosine(v1, v2) ELSE SimThrows]

calculateSimilarity(e1, e2) ==
    IF e1.repr = "null" \/ e2.repr = "null" THEN SimValue(0)
    ELSE IF EmbeddingLength(e1) # EmbeddingLength(e2) THEN SimThrows
    ELSE IF e1.repr = "string" \/ e2.repr = "string"
         \* "[" * x is NaN, and NaN spreads through the sums and the quotient
         THEN SimNaN
    ELSE CosineOf[e1.vec, e2.vec]

\* similarity >= threshold: false for NaN
AtLeast(sim, threshold) == ~sim.nan /\ sim.value >= threshold

----------------------------------------------------------------------------
(* The store.  Deleting a memory removes the links that name it.           *)

CascadeLinks(lnks, deletedIds) ==
    {l \in lnks : l.sourceId \notin deletedIds /\ l.targetId \notin deletedIds}

NoSimilarity == -1   \* a link row whose similarity column is null

Link(source, target, linkType, strength, similarity) ==
    [sourceId |-> source, targetId |-> target, linkType |-> linkType,
     strength |-> strength, similarity |-> similarity]

SameKey(l, k) ==
    l.sourceId = k.sourceId /\ l.targetId = k.targetId /\ l.linkType = k.linkType

\* prisma.memoryLink.createMany({ data, skipDuplicates: true }): rows are
\* inserted in order; a row whose (sourceId, targetId, linkType) is taken is
\* skipped.
RECURSIVE CreateManySkipDuplicates(_, _)
CreateManySkipDuplicates(lnks, rows) ==
    IF rows = <<>> THEN lnks
    ELSE LET r == Head(rows)
         IN CreateManySkipDuplicates(
                IF \E l \in lnks : SameKey(l, r) THEN lnks ELSE lnks \cup {r},
                Tail(rows))

----------------------------------------------------------------------------
(* MemoryEvolutionService.decayMemories *)

\* updateMany({ where: { importance: { gt: 0 } }, data: { importance: { decrement } } })
DecrementImportance(mems) ==
    [id \in DOMAIN mems |->
        IF mems[id].importance > 0
        THEN [mems[id] EXCEPT !.importance = @ - DecayRate]
        ELSE mems[id]]

DecrementedIds(mems) == {id \in DOMAIN mems : mems[id].importance > 0}

\* a variant that archives only what fell below zero
ArchiveLowImportance_BelowPurge(mems) ==
    [id \in DOMAIN mems |->
        IF mems[id].importance < 0 /\ mems[id].type # "ARCHIVED"
        THEN [mems[id] EXCEPT !.type = "ARCHIVED"]
        ELSE mems[id]]

\* updateMany({ where: { importance: { lte: 0.1 }, type: { not: 'ARCHIVED' } }, data: { type: 'ARCHIVED' } })
ArchiveLowImportance(mems) ==
    [id \in DOMAIN mems |->
        IF mems[id].importance <= ArchiveThreshold /\ mems[id].type # "ARCHIVED"
        THEN [mems[id] EXCEPT !.type = "ARCHIVED"]
        ELSE mems[id]]

ArchivedIds(mems) ==
    {id \in DOMAIN mems :
        mems[id].importance <= ArchiveThreshold /\ mems[id].type # "ARCHIVED"}

\* a variant that purges whatever the access count
PurgeIds_AnyAccessCount(mems, cutoffDate) ==
    {id \in DOMAIN mems :
        /\ mems[id].createdAt < cutoffDate
        /\ mems[id].lastAccessed < cutoffDate
        /\ mems[id].importance <= PurgeThreshold}

\* deleteMany({ where: { AND: [createdAt < cutoff, lastAccessed < cutoff,
\*                             accessCount <= 1, importance <= 0.05] } })
PurgeIds(mems, cutoffDate) ==
    {id \in DOMAIN mems :
        /\ mems[id].createdAt < cutoffDate
        /\ mems[id].lastAccessed < cutoffDate
        /\ mems[id].accessCount <= PurgeAccessCount
        /\ mems[id].importance <= PurgeThreshold}

\* a variant that purges before it archives
decayMemories_PurgeBeforeArchive ==
    LET decayed == DecrementImportance(memories)
        cutoffDate == now - MaxMemoryAge
        deleted == PurgeIds(decayed, cutoffDate)
        kept == Restrict(decayed, DOMAIN decayed \ deleted)
    IN /\ memories' = ArchiveLowImportance(kept)
       /\ links' = CascadeLinks(links, deleted)
       /\ purged' = {[id |-> id, before |-> memories[id], atDelete |-> decayed[id]] :
                        id \in deleted}
       /\ lastOp' = [op |-> "decayMemories", ok |-> TRUE,
                     decayed |-> Cardinality(DecrementedIds(memories)),
                     archived |-> Cardinality(ArchivedIds(kept)),
                     deleted |-> Cardinality(deleted)]
       /\ UNCHANGED <<nextId, now, similarityThreshold, groups, executions, fired, cronService>>

decayMemories ==
    LET decayed == DecrementImportance(memories)
        archived == ArchiveLowImportance(decayed)
        cutoffDate == now - MaxMemoryAge
        deleted == PurgeIds(archived, cutoffDate)
    IN /\ memories' = Restrict(archived, DOMAIN archived \ deleted)
       /\ links' = CascadeLinks(links, deleted)
       /\ purged' = {[id |-> id, before |-> memories[id], atDelete |-> archived[id]] :
                        id \in deleted}
       /\ lastOp' = [op |-> "decayMemories", ok |-> TRUE,
                     decayed |-> Cardinality(DecrementedIds(memories)),
                     archived |-> Cardinality(ArchivedIds(decayed)),
                     deleted |-> Cardinality(deleted)]
       /\ UNCHANGED <<nextId, now, similarityThreshold, groups, executions, fired, cronService>>

(* MemoryService.decayMemories (POST /memories/decay) *)

\* updateMany({ where: { importance: { lte: 0.1 } }, data: { type: 'ARCHIVED' } })
MemoryService_ArchiveLowImportance(mems) ==
    [id \in DOMAIN mems |->
        IF mems[id].importance <= ArchiveThreshold
        THEN [mems[id] EXCEPT !.type = "ARCHIVED"]
        ELSE mems[id]]

MemoryService_decayMemories ==
    LET decayed == DecrementImportance(memories)
    IN /\ memories' = MemoryService_ArchiveLowImportance(decayed)
       /\ lastOp' = [op |-> "MemoryService_decayMemories", ok |-> TRUE,
                     decayed |-> Cardinality(DecrementedIds(memories)),
                     archived |-> Cardinality({id \in DOMAIN decayed :
                                     decayed[id].importance <= ArchiveThreshold})]
       /\ UNCHANGED <<links, nextId, now, similarityThreshold, groups, purged, executions, fired, cronService>>

----------------------------------------------------------------------------
(* The clock *)

Tick ==
    /\ now < StartDay + MaxTicks
    /\ now' = now + 1
    /\ lastOp' = [op |-> "Tick", ok |-> TRUE]
    /\ UNCHANGED <<memories, links, nextId, similarityThreshold, groups, purged, executions, fired, cronService>>

----------------------------------------------------------------------------
(* MemoryEvolutionService.consolidateSimilarMemories *)

\* Math.log(n) in ten-thousandths, n >= 1
LnTable ==
    <<0, 6931, 10986, 13863, 16094, 17918, 19459, 20794,
      21972, 23026, 23979, 24849, 25649, 26391, 27081, 27726>>

RECURSIVE Ln(_)
Ln(n) == IF n <= Len(LnTable) THEN LnTable[n] ELSE Ln(n \div 2) + LnTable[2]

\* a.importance * Math.log(a.accessCount + 1)
Score(m) == m.importance * Ln(m.accessCount + 1)

\* Array.prototype.sort with (a, b) => scoreB - scoreA: descending and stable
RECURSIVE InsertByScore(_, _)
InsertByScore(sorted, m) ==
    IF sorted = <<>> THEN <<m>>
    ELSE IF Score(Head(sorted)) >= Score(m)
         THEN <<Head(sorted)>> \o InsertByScore(Tail(sorted), m)
         ELSE <<m>> \o sorted

RECURSIVE SortByScore(_)
SortByScore(group) ==
    IF group = <<>> THEN <<>>
    ELSE InsertByScore(SortByScore(SubSeq(group, 1, Len(group) - 1)),
                       group[Len(group)])

\* [...new Set(contents)]: the first occurrence of each content, in order
RECURSIVE UniqueContents(_, _)
UniqueContents(contents, seen) ==
    IF contents = <<>> THEN <<>>
    ELSE IF Head(contents) \in seen THEN UniqueContents(Tail(contents), seen)
    ELSE <<Head(contents)>> \o UniqueContents(Tail(contents), seen \cup {Head(contents)})

\* uniqueContents.join('\n\n---\n\n'): a content is a sequence of atoms and
\* the join is their concatenation
RECURSIVE Join(_)
Join(contents) == IF contents = <<>> THEN <<>> ELSE Head(contents) \o Join(Tail(contents))

combineMemoryContent(sorted) ==
    LET uniqueContents == UniqueContents([i \in 1..Len(sorted) |-> sorted[i].content], {})
    IN IF Len(uniqueContents) = 1 THEN uniqueContents[1] ELSE Join(uniqueContents)

\* a variant that averages the secondaries only
NewImportance_WithoutPrimary(sorted) ==
    Min(ImportanceCap,
        SumSeq([i \in 1..Len(sorted) - 1 |-> sorted[i + 1].importance]) \div (Len(sorted) - 1))

\* Math.min(1, totalWeight / sortedMemories.length)
NewImportance(sorted) ==
    Min(ImportanceCap,
        SumSeq([i \in 1..Len(sorted) |-> sorted[i].importance]) \div Len(sorted))

\* sortedMemories.reduce((sum, m) => sum + m.accessCount, 0)
NewAccessCount(sorted) == SumSeq([i \in 1..Len(sorted) |-> sorted[i].accessCount])

\* a variant that deletes the secondaries
ArchiveSecondaries_Delete(mems, primaryId, secondaryIds, day) ==
    Restrict(mems, DOMAIN mems \ secondaryIds)

\* a variant that leaves the secondaries as they are
ArchiveSecondaries_Keep(mems, primaryId, secondaryIds, day) == mems

\* updateMany({ where: { id: { in: secondaries } },
\*              data: { type: 'ARCHIVED', metadata: { consolidatedInto, consolidatedAt } } })
ArchiveSecondaries(mems, primaryId, secondaryIds, day) ==
    [id \in DOMAIN mems |->
        IF id \in secondaryIds
        THEN [mems[id] EXCEPT !.type = "ARCHIVED",
                              !.metadata = {<<"consolidatedInto", primaryId>>,
                                            <<"consolidatedAt", day>>}]
        ELSE mems[id]]

\* consolidateMemoryGroup(memories): the store after the three writes
PrimaryOf(group) == SortByScore(group)[1]

\* prisma.memory.update of the primary, from the rows of the group as fetched
UpdatePrimary(mems, sortedMemories, day) ==
    [mems EXCEPT ![sortedMemories[1].id] =
        [@ EXCEPT !.content = combineMemoryContent(sortedMemories),
                  !.importance = NewImportance(sortedMemories),
                  !.accessCount = NewAccessCount(sortedMemories),
                  !.metadata = {<<"consolidated", 1>>,
                                <<"originalCount", Len(sortedMemories)>>,
                                <<"consolidatedAt", day>>}]]

\* the data of the createMany: one link from the primary to each secondary
HierarchicalRows(sortedMemories) ==
    [i \in 1..Len(sortedMemories) - 1 |->
        Link(sortedMemories[1].id, sortedMemories[i + 1].id, "HIERARCHICAL",
             1000, sortedMemories[i + 1].similarity)]

consolidateMemoryGroup(mems, lnks, group, day) ==
    LET sortedMemories == CHOOSE r \in {SortByScore(group)} : TRUE
        primaryMemory == sortedMemories[1]
        secondaryMemories == Tail(sortedMemories)
    IN [mems |-> ArchiveSecondaries(UpdatePrimary(mems, sortedMemories, day),
                                    primaryMemory.id,
                                    {secondaryMemories[i].id : i \in 1..Len(secondaryMemories)},
                                    day),
        lnks |-> CreateManySkipDuplicates(lnks, HierarchicalRows(sortedMemories))]

\* no write of the store is rejected
NoFault == [group |-> 0, write |-> "none"]

\* consolidateMemoryGroup(memories) when the store rejects one of its three
\* awaited writes: the writes before it stay (no transaction spans them), the
\* rejection is logged and rethrown
consolidateMemoryGroupAborted(mems, lnks, group, day, write) ==
    LET sortedMemories == CHOOSE r \in {SortByScore(group)} : TRUE
    IN [mems |-> IF write = "update" THEN mems
                 ELSE UpdatePrimary(mems, sortedMemories, day),
        lnks |-> IF write = "updateMany"
                 THEN CreateManySkipDuplicates(lnks, HierarchicalRows(sortedMemories))
                 ELSE lnks]

\* a variant that does not leave the ARCHIVED rows out
ConsolidationCandidates_WithArchived(mems, agentId) ==
    {id \in DOMAIN mems :
        /\ mems[id].embedding.repr # "null"
        /\ (agentId # NoAgent => mems[id].agentId = agentId)}

\* findMany({ where: { type: { not: 'ARCHIVED' }, embedding: { not: null }, agentId? } })
ConsolidationCandidates(mems, agentId) ==
    {id \in DOMAIN mems :
        /\ mems[id].type # "ARCHIVED"
        /\ mems[id].embedding.repr # "null"
        /\ (agentId # NoAgent => mems[id].agentId = agentId)}

\* orderBy: { importance: 'desc' }: rows of equal importance come in any order
ImportanceOrders(mems, ids) ==
    {o \in Orderings(ids) :
        \A i, j \in DOMAIN o : i < j => mems[o[i]].importance >= mems[o[j]].importance}

\* the selected columns of a row, with its id; similarity is not set yet
SnapshotRow(mems, id) ==
    [id |-> id, content |-> mems[id].content, type |-> mems[id].type,
     importance |-> mems[id].importance, embedding |-> mems[id].embedding,
     createdAt |-> mems[id].createdAt, accessCount |-> mems[id].accessCount,
     similarity |-> NoSimilarity]

\* the inner loop (j = i + 1 ..): the rows pushed on similarMemories, or the
\* throw of calculateSimilarity
RECURSIVE SimilarScan(_, _, _, _, _)
SimilarScan(snap, i, j, processed, threshold) ==
    IF j > Len(snap) THEN [failed |-> FALSE, similar |-> <<>>]
    ELSE IF snap[j].id \in processed THEN SimilarScan(snap, i, j + 1, processed, threshold)
    ELSE LET similarity == CHOOSE r \in {calculateSimilarity(snap[i].embedding,
                                                             snap[j].embedding)} : TRUE
             rest == CHOOSE r \in {SimilarScan(snap, i, j + 1, processed, threshold)} : TRUE
         IN IF similarity.throws THEN [failed |-> TRUE, similar |-> <<>>]
            ELSE IF rest.failed THEN rest
            ELSE IF AtLeast(similarity, threshold)
                 THEN [failed |-> FALSE,
                       similar |-> <<[snap[j] EXCEPT !.similarity = similarity.value]>>
                                   \o rest.similar]
                 ELSE rest

\* a variant that takes claimed rows as seeds again
SkipProcessed_Never(id, processed) == FALSE

\* processed.has(id)
SkipProcessed(id, processed) == id \in processed

\* the outer loop (i = 0 ..) from index i on, st being the locals and the store
\* one group formed: the locals and the store after consolidateMemoryGroup
AfterGroup(st, group, written) ==
    [mems |-> written.mems, lnks |-> written.lnks,
     processed |-> st.processed \cup {group[k].id : k \in 1..Len(group)},
     groups |-> Append(st.groups, group),
     consolidated |-> st.consolidated + 1,
     failed |-> FALSE, fault |-> st.fault]

\* the outer loop (i = 0 ..) from index i on, st being the locals and the store
RECURSIVE ConsolidateLoop(_, _, _, _, _)
ConsolidateLoop(snap, i, st, threshold, day) ==
    IF i > Len(snap) \/ st.failed THEN st
    ELSE IF SkipProcessed(snap[i].id, st.processed)
         THEN ConsolidateLoop(snap, i + 1, st, threshold, day)
    ELSE LET scan == CHOOSE r \in {SimilarScan(snap, i, i + 1, st.processed, threshold)} : TRUE
         IN IF scan.failed THEN [st EXCEPT !.failed = TRUE]
            ELSE IF Len(scan.similar) > 0 /\ st.fault.group = st.consolidated + 1
            THEN LET group == <<snap[i]>> \o scan.similar
                     kept == CHOOSE w \in {consolidateMemoryGroupAborted(
                                               st.mems, st.lnks, group, day,
                                               st.fault.write)} : TRUE
                 IN [st EXCEPT !.mems = kept.mems, !.lnks = kept.lnks,
                               !.groups = Append(@, group), !.failed = TRUE]
            ELSE IF Len(scan.similar) > 0
            THEN LET group == <<snap[i]>> \o scan.similar
                 IN ConsolidateLoop(snap, i + 1,
                        AfterGroup(st, group,
                            CHOOSE w \in {consolidateMemoryGroup(st.mems, st.lnks, group, day)} : TRUE),
                        threshold, day)
            ELSE ConsolidateLoop(snap, i + 1,
                    [st EXCEPT !.processed = @ \cup {snap[i].id},
                               !.groups = Append(@, <<snap[i]>>)],
                    threshold, day)

consolidateSimilarMemories(agentId) ==
    \E order \in ImportanceOrders(memories, ConsolidationCandidates(memories, agentId)) :
      \E run \in {ConsolidateLoop(
                     [i \in 1..Len(order) |-> SnapshotRow(memories, order[i])], 1,
                     [mems |-> memories, lnks |-> links, processed |-> {},
                      groups |-> <<>>, consolidated |-> 0, failed |-> FALSE,
                      fault |-> NoFault],
                     similarityThreshold, now)} :
        /\ memories' = run.mems
        /\ links' = run.lnks
        /\ groups' = run.groups
        /\ lastOp' = IF run.failed
                     THEN [op |-> "consolidateSimilarMemories", ok |-> FALSE,
                           agentId |-> agentId]
                     ELSE [op |-> "consolidateSimilarMemories", ok |-> TRUE,
                           agentId |-> agentId,
                           consolidated |-> run.consolidated,
                           totalProcessed |-> Cardinality(run.processed)]
        /\ UNCHANGED <<nextId, now, similarityThreshold, purged, executions, fired, cronService>>

\* consolidateSimilarMemories(agentId) in a run where the store rejects a
\* write of consolidateMemoryGroup: the error is logged and rethrown twice
consolidateSimilarMemoriesAborted(agentId, fault) ==
    \E order \in ImportanceOrders(memories, ConsolidationCandidates(memories, agentId)) :
      \E run \in {ConsolidateLoop(
                     [i \in 1..Len(order) |-> SnapshotRow(memories, order[i])], 1,
                     [mems |-> memories, lnks |-> links, processed |-> {},
                      groups |-> <<>>, consolidated |-> 0, failed |-> FALSE,
                      fault |-> fault],
                     similarityThreshold, now)} :
        /\ run.failed
        /\ run.groups # <<>>
        /\ Len(run.groups[Len(run.groups)]) >= 2
        /\ memories' = run.mems
        /\ links' = run.lnks
        /\ groups' = run.groups
        /\ lastOp' = [op |-> "consolidateSimilarMemories", ok |-> FALSE,
                      agentId |-> agentId, rejected |-> fault.write,
                      before |-> memories]
        /\ UNCHANGED <<nextId, now, similarityThreshold, purged, executions, fired, cronService>>

----------------------------------------------------------------------------
(* MemoryService: createMemory, updateMemory *)

Row(agentId, content, type, importance, accessCount, embedding, createdAt, lastAccessed, metadata) ==
    [agentId |-> agentId, content |-> content, type |-> type,
     importance |-> importance, accessCount |-> accessCount,
     embedding |-> embedding, createdAt |-> createdAt,
     lastAccessed |-> lastAccessed, metadata |-> metadata]

\* MemoryService.similarityThreshold: SIMILARITY_THRESHOLD || 0.3, from the
\* same environment variable as the evolution service's || 0.7
MemoryServiceThreshold ==
    IF similarityThreshold = EvolutionDefaultThreshold
    THEN ServiceDefaultThreshold
    ELSE similarityThreshold

\* the importance the store gives a row created without one
DefaultImportance == 500

\* a sort that is descending but puts the later of two equal rows first
RECURSIVE InsertBySimilarity_Unstable(_, _)
InsertBySimilarity_Unstable(sorted, m) ==
    IF sorted = <<>> THEN <<m>>
    ELSE IF Head(sorted).similarity > m.similarity
         THEN <<Head(sorted)>> \o InsertBySimilarity_Unstable(Tail(sorted), m)
         ELSE <<m>> \o sorted

\* Array.prototype.sort with (a, b) => b.similarity - a.similarity:
\* descending and stable
RECURSIVE InsertBySimilarity(_, _)
InsertBySimilarity(sorted, m) ==
    IF sorted = <<>> THEN <<m>>
    ELSE IF Head(sorted).similarity >= m.similarity
         THEN <<Head(sorted)>> \o InsertBySimilarity(Tail(sorted), m)
         ELSE <<m>> \o sorted

RECURSIVE SortBySimilarity(_)
SortBySimilarity(rows) ==
    IF rows = <<>> THEN <<>>
    ELSE InsertBySimilarity(SortBySimilarity(SubSeq(rows, 1, Len(rows) - 1)),
                            rows[Len(rows)])

\* the rows of ids (a sequence) whose similarity passes the threshold, each
\* with its similarity, in the order of ids
RECURSIVE FilterSimilar(_, _, _)
FilterSimilar(ids, simOf, threshold) ==
    IF ids = <<>> THEN <<>>
    ELSE LET rest == FilterSimilar(Tail(ids), simOf, threshold)
         IN IF AtLeast(simOf[Head(ids)], threshold)
            THEN <<[id |-> Head(ids), similarity |-> simOf[Head(ids)].value]>> \o rest
            ELSE rest

\* JSON.parse(memory.embedding || '[]') then calculateSimilarity: a stored
\* text parses to its array; a stored array is turned into text such as
\* "1,0" first, which is no JSON, and the parse throws
ParsedSimilarity(embedding, stored) ==
    IF stored.repr = "string"
    THEN calculateSimilarity(ArrayEmbedding(embedding), ArrayEmbedding(JsonParse(stored)))
    ELSE SimThrows

\* MemoryService.findSimilarMemories(embedding, excludeId): every other row
\* with an embedding, ARCHIVED or not; no limit
MemoryService_findSimilarMemories(mems, embedding, excludeId, threshold) ==
    LET ids == {id \in DOMAIN mems : mems[id].embedding.repr # "null" /\ id # excludeId}
    IN CHOOSE r \in
        {IF \E id \in ids : simOf[id].throws
         THEN [failed |-> TRUE, similar |-> <<>>]
         ELSE [failed |-> FALSE,
               similar |-> SortBySimilarity(FilterSimilar(AscendingSeq(ids), simOf,
                                                          threshold))] :
            simOf \in {[id \in ids |->
                          ParsedSimilarity(embedding, mems[id].embedding)]}} : TRUE

\* MemoryService.createSemanticLinks(memoryId, embedding): the links after it,
\* or that it threw
createSemanticLinks(mems, lnks, memoryId, embedding, threshold) ==
    LET found == CHOOSE r \in {MemoryService_findSimilarMemories(
                                   mems, embedding, memoryId, threshold)} : TRUE
        rows == [i \in 1..Len(found.similar) |->
                    Link(memoryId, found.similar[i].id, "SEMANTIC",
                         found.similar[i].similarity, found.similar[i].similarity)]
    IN [failed |-> found.failed,
        lnks |-> IF found.failed THEN lnks ELSE CreateManySkipDuplicates(lnks, rows)]

\* a variant that stores the row, without an embedding, before it asks for one
createMemory_StoreFirst(agentId, atom, type, embedderUp) ==
    /\ nextId <= MaxMem
    /\ memories' = [id \in DOMAIN memories \cup {nextId} |->
                      IF id = nextId
                      THEN Row(agentId, <<atom>>, type, DefaultImportance, 0,
                               IF embedderUp THEN JsonStringify(Embed(atom)) ELSE NullEmbedding,
                               now, now, NoMetadata)
                      ELSE memories[id]]
    /\ nextId' = nextId + 1
    /\ lastOp' = [op |-> "createMemory", ok |-> embedderUp,
                  id |-> IF embedderUp THEN nextId ELSE 0,
                  embedded |-> embedderUp, embedderCalls |-> 1]
    /\ UNCHANGED <<links, now, similarityThreshold, groups, purged, executions, fired, cronService>>

\* createMemory(agentId, { content, type }); embedderUp is whether
\* generateEmbedding answers.  embedded: the embedding was obtained;
\* embedderCalls: the calls of generateEmbedding made.
createMemory(agentId, atom, type, embedderUp) ==
    /\ nextId <= MaxMem
    /\ IF ~embedderUp
       THEN /\ lastOp' = [op |-> "createMemory", ok |-> FALSE, id |-> 0,
                          embedded |-> FALSE, embedderCalls |-> 1]
            /\ UNCHANGED <<memories, links, nextId>>
       ELSE \E created \in {[id \in DOMAIN memories \cup {nextId} |->
                              IF id = nextId
                              THEN Row(agentId, <<atom>>, type, DefaultImportance, 0,
                                       JsonStringify(Embed(atom)), now, now, NoMetadata)
                              ELSE memories[id]]} :
               \E linked \in {createSemanticLinks(created, links, nextId, Embed(atom),
                                                  MemoryServiceThreshold)} :
                   /\ memories' = created
                   /\ links' = linked.lnks
                   /\ nextId' = nextId + 1
                   /\ lastOp' = [op |-> "createMemory", ok |-> ~linked.failed, id |-> nextId,
                                 embedded |-> TRUE, embedderCalls |-> 1]
    /\ UNCHANGED <<now, similarityThreshold, groups, purged, executions, fired, cronService>>

NoContent == "none"
NoType == "none"

\* a variant that deletes the SEMANTIC links the memory is the source of only
DeleteSemanticLinks_SourceOnly(lnks, memoryId) ==
    {l \in lnks : ~(l.linkType = "SEMANTIC" /\ l.sourceId = memoryId)}

\* deleteMany({ where: { OR: [{ sourceId, linkType: 'SEMANTIC' },
\*                            { targetId, linkType: 'SEMANTIC' }] } })
DeleteSemanticLinks(lnks, memoryId) ==
    {l \in lnks : ~(l.linkType = "SEMANTIC"
                    /\ (l.sourceId = memoryId \/ l.targetId = memoryId))}

\* updateMemory(memoryId, { content, type }) (importance and metadata are
\* passed through untouched here)
updateMemory(memoryId, atom, type, embedderUp) ==
    /\ atom # NoContent \/ type # NoType
    /\ IF (atom # NoContent /\ ~embedderUp) \/ memoryId \notin DOMAIN memories
       THEN /\ lastOp' = [op |-> "updateMemory", ok |-> FALSE, id |-> memoryId,
                          content |-> atom # NoContent]
            /\ UNCHANGED <<memories, links>>
       ELSE \E updated \in {[memories EXCEPT ![memoryId] =
                    [@ EXCEPT !.content = IF atom # NoContent THEN <<atom>> ELSE @,
                              !.type = IF type # NoType THEN type ELSE @,
                              !.embedding = IF atom # NoContent
                                            THEN JsonStringify(Embed(atom)) ELSE @]]} :
               IF atom = NoContent
               THEN /\ memories' = updated
                    /\ links' = links
                    /\ lastOp' = [op |-> "updateMemory", ok |-> TRUE, id |-> memoryId,
                                  content |-> FALSE]
               ELSE \E linked \in {createSemanticLinks(updated,
                                      DeleteSemanticLinks(links, memoryId), memoryId,
                                      Embed(atom), MemoryServiceThreshold)} :
                       /\ memories' = updated
                       /\ links' = linked.lnks
                       /\ lastOp' = [op |-> "updateMemory", ok |-> ~linked.failed,
                                     id |-> memoryId, content |-> TRUE]
    /\ UNCHANGED <<nextId, now, similarityThreshold, groups, purged, executions, fired, cronService>>

\* deleteMany({ where: { OR: [{ sourceId: memoryId }, { targetId: memoryId }] } })
DeleteLinksOf(lnks, memoryId) ==
    {l \in lnks : l.sourceId # memoryId /\ l.targetId # memoryId}

\* The row goes and the links stay.
deleteMemory_RowOnly(memoryId) ==
    /\ memoryId \in DOMAIN memories
    /\ memories' = Restrict(memories, DOMAIN memories \ {memoryId})
    /\ lastOp' = [op |-> "deleteMemory", ok |-> TRUE, id |-> memoryId, removed |-> 0]
    /\ UNCHANGED <<links, nextId, now, similarityThreshold, groups, purged, executions, fired, cronService>>

\* deleteMemory(memoryId): the links naming the memory are deleted first, then
\* the row; prisma.memory.delete rejects when there is no such row, after the
\* deleteMany has run.
deleteMemory(memoryId) ==
    \E kept \in {DeleteLinksOf(links, memoryId)} :
        /\ IF memoryId \in DOMAIN memories
           THEN /\ memories' = Restrict(memories, DOMAIN memories \ {memoryId})
                /\ links' = CascadeLinks(kept, {memoryId})
           ELSE /\ memories' = memories
                /\ links' = kept
        /\ lastOp' = [op |-> "deleteMemory", ok |-> memoryId \in DOMAIN memories,
                      id |-> memoryId, removed |-> Cardinality(links \ kept)]
        /\ UNCHANGED <<nextId, now, similarityThreshold, groups, purged, executions, fired, cronService>>

----------------------------------------------------------------------------
(* MemoryEvolutionService.updateMemoryLinks *)

\* MemoryEvolutionService.findSimilarMemories(embedding, excludeId): the
\* other rows with an embedding that are not ARCHIVED, the stored embedding
\* used as it is; the ten most similar
findSimilarMemories(mems, embedding, excludeId, threshold) ==
    LET ids == {id \in DOMAIN mems :
                    /\ mems[id].embedding.repr # "null"
                    /\ id # excludeId
                    /\ mems[id].type # "ARCHIVED"}
    IN CHOOSE r \in
        {IF \E id \in ids : simOf[id].throws
         THEN [failed |-> TRUE, similar |-> <<>>]
         ELSE CHOOSE q \in
                {[failed |-> FALSE,
                  similar |-> SubSeq(sorted, 1, Min(SimilarLimit, Len(sorted)))] :
                    sorted \in {SortBySimilarity(FilterSimilar(AscendingSeq(ids), simOf,
                                                               threshold))}} : TRUE :
            simOf \in {[id \in ids |->
                          calculateSimilarity(embedding, mems[id].embedding)]}} : TRUE

\* a variant that never finds the link
ExistingLinks_Never(lnks, a, b) == {}

\* a variant that looks for an existing link in one direction only
ExistingLinks_OneDirection(lnks, a, b) ==
    {l \in lnks : l.linkType = "SEMANTIC" /\ l.sourceId = a /\ l.targetId = b}

\* findFirst({ where: { OR: [{ sourceId: a, targetId: b },
\*                           { sourceId: b, targetId: a }], linkType: 'SEMANTIC' } })
ExistingLinks(lnks, a, b) ==
    {l \in lnks : /\ l.linkType = "SEMANTIC"
                  /\ \/ l.sourceId = a /\ l.targetId = b
                     \/ l.sourceId = b /\ l.targetId = a}

\* one turn of the inner loop: update the link found or create one
LinkOne(st, memoryId, peer) ==
    LET existing == ExistingLinks(st.lnks, memoryId, peer.id)
    IN IF existing # {}
       THEN LET existingLink == CHOOSE l \in existing : TRUE
            IN [st EXCEPT !.lnks = (@ \ {existingLink}) \cup
                                {[existingLink EXCEPT !.strength = peer.similarity,
                                                      !.similarity = peer.similarity]},
                          !.linksUpdated = @ + 1]
       ELSE [st EXCEPT !.lnks = @ \cup {Link(memoryId, peer.id, "SEMANTIC",
                                             peer.similarity, peer.similarity)},
                       !.linksCreated = @ + 1]

\* the inner loop over similarMemories
RECURSIVE LinkSimilar(_, _, _)
LinkSimilar(st, memoryId, similar) ==
    IF similar = <<>> THEN st
    ELSE CHOOSE r \in {LinkSimilar(next, memoryId, Tail(similar)) :
                          next \in {LinkOne(st, memoryId, Head(similar))}} : TRUE

\* the outer loop over the rows fetched at the start
RECURSIVE UpdateLinksLoop(_, _, _, _)
UpdateLinksLoop(mems, fetched, st, threshold) ==
    IF fetched = <<>> \/ st.failed THEN st
    ELSE CHOOSE r \in
            {IF found.failed THEN [st EXCEPT !.failed = TRUE]
             ELSE CHOOSE q \in {UpdateLinksLoop(mems, Tail(fetched), next, threshold) :
                                  next \in {LinkSimilar(st, Head(fetched), found.similar)}} :
                     TRUE :
                found \in {findSimilarMemories(mems, mems[Head(fetched)].embedding,
                                               Head(fetched), threshold)}} : TRUE

updateMemoryLinks ==
    LET fetched == AscendingSeq({id \in DOMAIN memories :
                        /\ memories[id].embedding.repr # "null"
                        /\ memories[id].type # "ARCHIVED"})
    IN \E run \in {UpdateLinksLoop(memories, fetched,
                       [lnks |-> links, linksCreated |-> 0, linksUpdated |-> 0,
                        failed |-> FALSE],
                       similarityThreshold)} :
        /\ links' = run.lnks
        \* repeated: the call before this one was an updateMemoryLinks that returned
        /\ lastOp' = IF run.failed
                     THEN [op |-> "updateMemoryLinks", ok |-> FALSE]
                     ELSE [op |-> "updateMemoryLinks", ok |-> TRUE,
                           linksCreated |-> run.linksCreated,
                           linksUpdated |-> run.linksUpdated,
                           repeated |-> (lastOp.op = "updateMemoryLinks" /\ lastOp.ok)]
        /\ UNCHANGED <<memories, nextId, now, similarityThreshold, groups, purged, executions, fired, cronService>>

----------------------------------------------------------------------------
(* MemoryEvolutionService.transferKnowledge *)

TransferTypes == {"SEMANTIC", "PROCEDURAL"}
TransferFactor == 8      \* importance * 0.8, in tenths

\* a variant that embeds every content to the zero vector
generateEmbedding_Zero(content) == <<0, 0>>

\* generateEmbedding(content) for a content of one atom
generateEmbedding(content) == Embed(content[1])

\* a variant that finds no existing memory similar
ExistingScan_Never(mems, existing, sourceEmbedding, threshold) == "none"

\* the scan of existingMemories: "similar" at the first row that reaches the
\* threshold, "throws" at a row calculateSimilarity throws on, otherwise
\* "none"
RECURSIVE ExistingScan(_, _, _, _)
ExistingScan(mems, existing, sourceEmbedding, threshold) ==
    IF existing = <<>> THEN "none"
    ELSE IF mems[Head(existing)].embedding.repr = "null"
         THEN ExistingScan(mems, Tail(existing), sourceEmbedding, threshold)
    ELSE LET similarity == calculateSimilarity(ArrayEmbedding(sourceEmbedding),
                                               mems[Head(existing)].embedding)
         IN IF similarity.throws THEN "throws"
            ELSE IF AtLeast(similarity, threshold) THEN "similar"
            ELSE ExistingScan(mems, Tail(existing), sourceEmbedding, threshold)

\* { ...metadata, key: value, ... }: the keys written replace those spread
Spread(metadata, written) ==
    {p \in metadata : \A w \in written : w[1] # p[1]} \cup written

\* a variant that leaves out the rows a transfer inserted
ExistingMemories_WithoutCopies(mems, targetAgentId, type) ==
    {id \in DOMAIN mems : /\ mems[id].agentId = targetAgentId
                          /\ mems[id].type = type
                          /\ <<"transferred", 1>> \notin mems[id].metadata}

\* findMany({ where: { agentId: targetAgentId, type: memory.type } }), asked
\* again at every turn of the loop
ExistingMemories(mems, targetAgentId, type) ==
    {id \in DOMAIN mems : mems[id].agentId = targetAgentId /\ mems[id].type = type}

\* the loop over sourceMemories (ids, with the values read at the start)
RECURSIVE TransferLoop(_, _, _, _, _, _)
TransferLoop(st, sourceMemories, sourceAgentId, targetAgentId, threshold, day) ==
    IF sourceMemories = <<>> \/ st.failed THEN st
    ELSE LET memory == Head(sourceMemories)
             existing == AscendingSeq(ExistingMemories(st.mems, targetAgentId, memory.type))
             sourceEmbedding == generateEmbedding(memory.content)
             scan == CHOOSE r \in {ExistingScan(st.mems, existing, sourceEmbedding,
                                                threshold)} : TRUE
         IN IF scan = "throws" THEN [st EXCEPT !.failed = TRUE]
            ELSE IF scan = "similar"
                 THEN TransferLoop(st, Tail(sourceMemories), sourceAgentId,
                                   targetAgentId, threshold, day)
            ELSE TransferLoop(
                    [st EXCEPT
                        !.mems = [id \in DOMAIN st.mems \cup {st.nextId} |->
                                    IF id = st.nextId
                                    THEN Row(targetAgentId, memory.content, memory.type,
                                             (memory.importance * TransferFactor) \div 10,
                                             0, ArrayEmbedding(sourceEmbedding), day, day,
                                             Spread(memory.metadata,
                                                {<<"transferred", 1>>,
                                                 <<"sourceAgentId", sourceAgentId>>,
                                                 <<"originalMemoryId", memory.id>>,
                                                 <<"transferredAt", day>>}))
                                    ELSE st.mems[id]],
                        !.nextId = @ + 1,
                        !.transferred = @ + 1],
                    Tail(sourceMemories), sourceAgentId, targetAgentId, threshold, day)

\* transferKnowledge(sourceAgentId, targetAgentId) with the default
\* memoryTypes; embedderUp is whether generateEmbedding answers
transferKnowledge(sourceAgentId, targetAgentId, embedderUp) ==
    LET sourceIds == AscendingSeq({id \in DOMAIN memories :
                        /\ memories[id].agentId = sourceAgentId
                        /\ memories[id].type \in TransferTypes
                        /\ memories[id].importance >= TransferFloor})
        sourceMemories == [i \in 1..Len(sourceIds) |->
                              [id |-> sourceIds[i],
                               content |-> memories[sourceIds[i]].content,
                               type |-> memories[sourceIds[i]].type,
                               importance |-> memories[sourceIds[i]].importance,
                               metadata |-> memories[sourceIds[i]].metadata]]
    IN \E run \in {IF ~embedderUp /\ sourceMemories # <<>>
                   THEN [mems |-> memories, nextId |-> nextId, transferred |-> 0,
                         failed |-> TRUE]
                   ELSE TransferLoop([mems |-> memories, nextId |-> nextId,
                                      transferred |-> 0, failed |-> FALSE],
                                     sourceMemories, sourceAgentId, targetAgentId,
                                     similarityThreshold, now)} :
        /\ run.nextId <= MaxStored + 1
        /\ memories' = run.mems
        /\ nextId' = run.nextId
        \* repeated: the call before this one was the same transfer and returned
        /\ lastOp' = IF run.failed
                     THEN [op |-> "transferKnowledge", ok |-> FALSE,
                           sourceAgentId |-> sourceAgentId,
                           targetAgentId |-> targetAgentId]
                     ELSE [op |-> "transferKnowledge", ok |-> TRUE,
                           sourceAgentId |-> sourceAgentId,
                           targetAgentId |-> targetAgentId,
                           transferred |-> run.transferred,
                           totalSourceMemories |-> Len(sourceMemories),
                           repeated |-> (/\ lastOp.op = "transferKnowledge"
                                         /\ lastOp.ok
                                         /\ lastOp.sourceAgentId = sourceAgentId
                                         /\ lastOp.targetAgentId = targetAgentId)]
        /\ UNCHANGED <<links, now, similarityThreshold, groups, purged, executions, fired, cronService>>

----------------------------------------------------------------------------
(* The scheduled jobs and the decay endpoint, one awaited call at a step.  *)
(* Nothing in CronService, runEvolutionCycle or the route holds a lock, so *)
(* an execution starts whenever its job fires or its request arrives.      *)

\* the jobs CronService.start schedules, and the endpoint of routes/memory.js
CronJobs == {"memory-decay", "memory-consolidation", "memory-links", "full-evolution"}
DecayEndpoint == "POST /memories/decay"
Jobs == CronJobs \cup {DecayEndpoint}
\* a call of transferKnowledge, from the first agent to the second
TransferCall == "transferKnowledge"
\* a call of createMemory (POST /memories)
CreateCall == "createMemory"

\* the phase a job calls first
FirstPhase(job) ==
    CASE job = "memory-decay" -> "decay"
      [] job = "memory-consolidation" -> "consolidation"
      [] job = "memory-links" -> "linkUpdate"
      [] job = "full-evolution" -> "decay"
      [] job = DecayEndpoint -> "decay"
      [] job = TransferCall -> "transfer"
      [] job = CreateCall -> "create"

\* the first awaited call of a phase
FirstCall(phase) ==
    CASE phase = "decay" -> "decrement"
      [] phase = "create" -> "row"
      [] OTHER -> "fetch"

\* a cycle that updates the links before it consolidates
NextPhase_LinksFirst(job, phase) ==
    IF job # "full-evolution" THEN "done"
    ELSE CASE phase = "decay" -> "linkUpdate"
           [] phase = "linkUpdate" -> "consolidation"
           [] phase = "consolidation" -> "done"

\* runEvolutionCycle: decay, then consolidation, then linkUpdate; the other
\* jobs call one phase
NextPhase(job, phase) ==
    IF job # "full-evolution" THEN "done"
    ELSE CASE phase = "decay" -> "consolidation"
           [] phase = "consolidation" -> "linkUpdate"
           [] phase = "linkUpdate" -> "done"

\* the call of a phase: its locals are fresh
StartPhase(exec, phase) ==
    [exec EXCEPT !.phase = phase, !.pc = FirstCall(phase),
                 !.started = Append(@, phase),
                 !.snapshot = <<>>, !.i = 0, !.firstNew = 0,
                 !.read = {}, !.written = {}, !.created = {},
                 !.similar = <<>>, !.existing = {}]

NewExecution(job) ==
    StartPhase([job |-> job, phase |-> "none", pc |-> "none",
                started |-> <<>>, finished |-> <<>>, failed |-> <<>>,
                snapshot |-> <<>>, i |-> 0, firstNew |-> 0,
                read |-> {}, written |-> {}, created |-> {},
                similar |-> <<>>, existing |-> {}],
               FirstPhase(job))

\* a phase has returned (ok) or thrown: the awaits of runEvolutionCycle go on
\* to the next phase, the catch rethrows; a job of one phase is over
AfterPhase(exec, ok) ==
    IF ~ok
    THEN [exec EXCEPT !.failed = Append(@, exec.phase), !.pc = "rejected"]
    ELSE LET returned == [exec EXCEPT !.finished = Append(@, exec.phase)]
         IN IF NextPhase(exec.job, exec.phase) = "done"
            THEN [returned EXCEPT !.pc = "resolved"]
            ELSE StartPhase(returned, NextPhase(exec.job, exec.phase))

\* what the caller of a job gets when it is over: a result or the error
Outcome(exec) ==
    [op |-> "execution", job |-> exec.job, ok |-> exec.pc = "resolved",
     started |-> exec.started, finished |-> exec.finished, failed |-> exec.failed,
     phase |-> exec.phase, pc |-> exec.pc, firstNew |-> exec.firstNew,
     read |-> exec.read, written |-> exec.written, created |-> exec.created]

\* execution e goes on as exec, or is over
Settle(e, exec) ==
    IF exec.pc \in {"resolved", "rejected"}
    THEN /\ executions' = Restrict(executions, DOMAIN executions \ {e})
         /\ lastOp' = Outcome(exec)
    ELSE /\ executions' = [executions EXCEPT ![e] = exec]
         /\ lastOp' = lastOp

At(e, phase, pc) ==
    /\ e \in DOMAIN executions
    /\ executions[e].phase = phase
    /\ executions[e].pc = pc

\* a cron tick of the job, or a request to the endpoint
Fire(job) ==
    /\ fired < MaxRuns
    /\ fired' = fired + 1
    /\ executions' = (fired + 1 :> NewExecution(job)) @@ executions
    /\ UNCHANGED <<memories, links, nextId, now, similarityThreshold, lastOp, groups, purged, cronService>>

\* the awaited call of execution e rejects (the store does not answer)
Reject(e) ==
    /\ e \in DOMAIN executions
    /\ Settle(e, AfterPhase(executions[e], FALSE))
    /\ UNCHANGED <<memories, links, nextId, now, similarityThreshold, groups, purged, fired, cronService>>

\* decayMemories, first updateMany (both services)
DecayDecrement(e) ==
    /\ At(e, "decay", "decrement")
    /\ memories' = DecrementImportance(memories)
    /\ executions' = [executions EXCEPT ![e].pc = "archive"]
    /\ UNCHANGED <<links, nextId, now, similarityThreshold, lastOp, groups, purged, fired, cronService>>

\* decayMemories, second updateMany; MemoryService.decayMemories returns after it
DecayArchive(e) ==
    /\ At(e, "decay", "archive")
    /\ IF executions[e].job = DecayEndpoint
       THEN /\ memories' = MemoryService_ArchiveLowImportance(memories)
            /\ Settle(e, AfterPhase(executions[e], TRUE))
       ELSE /\ memories' = ArchiveLowImportance(memories)
            /\ executions' = [executions EXCEPT ![e].pc = "purge"]
            /\ lastOp' = lastOp
    /\ UNCHANGED <<links, nextId, now, similarityThreshold, groups, purged, fired, cronService>>

\* MemoryEvolutionService.decayMemories, the deleteMany
DecayPurge(e) ==
    /\ At(e, "decay", "purge")
    /\ \E deleted \in {PurgeIds(memories, now - MaxMemoryAge)} :
         /\ memories' = Restrict(memories, DOMAIN memories \ deleted)
         /\ links' = CascadeLinks(links, deleted)
         /\ purged' = {[id |-> id, before |-> memories[id], atDelete |-> memories[id]] :
                          id \in deleted}
    /\ Settle(e, AfterPhase(executions[e], TRUE))
    /\ UNCHANGED <<nextId, now, similarityThreshold, groups, fired, cronService>>

\* consolidateSimilarMemories, the findMany
ConsolidationFetch(e) ==
    /\ At(e, "consolidation", "fetch")
    /\ \E order \in ImportanceOrders(memories, ConsolidationCandidates(memories, NoAgent)) :
         executions' = [executions EXCEPT
            ![e].snapshot = [i \in 1..Len(order) |-> SnapshotRow(memories, order[i])],
            ![e].firstNew = nextId,
            ![e].read = {order[i] : i \in 1..Len(order)},
            ![e].pc = "groups"]
    /\ UNCHANGED <<memories, links, nextId, now, similarityThreshold, lastOp, groups, purged, fired, cronService>>

\* consolidateSimilarMemories, the loops over the rows fetched
ConsolidationGroups(e) ==
    /\ At(e, "consolidation", "groups")
    /\ \E run \in {ConsolidateLoop(executions[e].snapshot, 1,
                       [mems |-> memories, lnks |-> links, processed |-> {},
                        groups |-> <<>>, consolidated |-> 0, failed |-> FALSE,
                      fault |-> NoFault],
                       similarityThreshold, now)} :
         /\ memories' = run.mems
         /\ links' = run.lnks
         /\ groups' = run.groups
         /\ Settle(e, AfterPhase([executions[e] EXCEPT !.written = run.lnks \ links],
                                 ~run.failed))
    /\ UNCHANGED <<nextId, now, similarityThreshold, purged, fired, cronService>>

\* the rows a findMany of findSimilarMemories returns
SimilarCandidates(mems, excludeId) ==
    {id \in DOMAIN mems : /\ mems[id].embedding.repr # "null"
                          /\ id # excludeId
                          /\ mems[id].type # "ARCHIVED"}

\* updateMemoryLinks, the findMany
LinksFetch(e) ==
    /\ At(e, "linkUpdate", "fetch")
    /\ \E fetched \in {AscendingSeq({id \in DOMAIN memories :
                           /\ memories[id].embedding.repr # "null"
                           /\ memories[id].type # "ARCHIVED"})} :
         \E exec \in {[executions[e] EXCEPT
                         !.snapshot = [i \in 1..Len(fetched) |->
                                          [id |-> fetched[i],
                                           embedding |-> memories[fetched[i]].embedding]],
                         !.firstNew = nextId,
                         !.read = {fetched[i] : i \in 1..Len(fetched)},
                         !.i = 1, !.pc = "scan"]} :
            Settle(e, IF fetched = <<>> THEN AfterPhase(exec, TRUE) ELSE exec)
    /\ UNCHANGED <<memories, links, nextId, now, similarityThreshold, groups, purged, fired, cronService>>

\* updateMemoryLinks, one turn of the outer loop: findSimilarMemories queries
\* the store again, then the links of the row are written
LinksScan(e) ==
    /\ At(e, "linkUpdate", "scan")
    /\ \E row \in {executions[e].snapshot[executions[e].i]} :
        \E found \in {findSimilarMemories(memories, row.embedding, row.id,
                                          similarityThreshold)} :
         \E next \in {LinkSimilar([lnks |-> links, linksCreated |-> 0,
                                   linksUpdated |-> 0, failed |-> FALSE],
                                  row.id, found.similar)} :
          \E exec \in {[executions[e] EXCEPT
                          !.read = @ \cup SimilarCandidates(memories, row.id),
                          !.written = @ \cup (next.lnks \ links),
                          !.i = @ + 1]} :
            /\ links' = next.lnks
            /\ Settle(e, IF found.failed THEN AfterPhase(exec, FALSE)
                         ELSE IF exec.i > Len(exec.snapshot) THEN AfterPhase(exec, TRUE)
                         ELSE exec)
    /\ UNCHANGED <<memories, nextId, now, similarityThreshold, groups, purged, fired, cronService>>

\* transferKnowledge(1, 2), the findMany of the source memories
TransferFetch(e) ==
    /\ At(e, "transfer", "fetch")
    /\ \E sourceIds \in {AscendingSeq({id \in DOMAIN memories :
                             /\ memories[id].agentId = 1
                             /\ memories[id].type \in TransferTypes
                             /\ memories[id].importance >= TransferFloor})} :
         \E exec \in {[executions[e] EXCEPT
                         !.snapshot = [i \in 1..Len(sourceIds) |->
                                          [id |-> sourceIds[i],
                                           content |-> memories[sourceIds[i]].content,
                                           type |-> memories[sourceIds[i]].type,
                                           importance |-> memories[sourceIds[i]].importance,
                                           metadata |-> memories[sourceIds[i]].metadata]],
                         !.firstNew = nextId,
                         !.read = {sourceIds[i] : i \in 1..Len(sourceIds)},
                         !.i = 1, !.pc = "copy"]} :
            Settle(e, IF sourceIds = <<>> THEN AfterPhase(exec, TRUE) ELSE exec)
    /\ UNCHANGED <<memories, links, nextId, now, similarityThreshold, groups, purged, fired, cronService>>

\* transferKnowledge(1, 2), one turn of the loop: the target agent's memories
\* of the type are queried, then the copy is created unless one is similar
TransferCopy(e) ==
    /\ At(e, "transfer", "copy")
    /\ \E memory \in {executions[e].snapshot[executions[e].i]} :
        \E run \in {TransferLoop([mems |-> memories, nextId |-> nextId,
                                  transferred |-> 0, failed |-> FALSE],
                                 <<memory>>, 1, 2, similarityThreshold, now)} :
         \E exec \in {[executions[e] EXCEPT
                          !.read = @ \cup {id \in DOMAIN memories :
                                             /\ memories[id].agentId = 2
                                             /\ memories[id].type = memory.type},
                          !.created = @ \cup (DOMAIN run.mems \ DOMAIN memories),
                          !.i = @ + 1]} :
            /\ run.nextId <= MaxStored + 1
            /\ memories' = run.mems
            /\ nextId' = run.nextId
            /\ Settle(e, IF run.failed THEN AfterPhase(exec, FALSE)
                         ELSE IF exec.i > Len(exec.snapshot) THEN AfterPhase(exec, TRUE)
                         ELSE exec)
    /\ UNCHANGED <<links, now, similarityThreshold, groups, purged, fired, cronService>>

\* a variant that creates the link whatever the findFirst returned
WriteLink_AlwaysCreate(lnks, memoryId, peer, existing) ==
    [failed |-> \E l \in lnks : SameKey(l, Link(memoryId, peer.id, "SEMANTIC", 0, 0)),
     lnks |-> lnks \cup {Link(memoryId, peer.id, "SEMANTIC",
                              peer.similarity, peer.similarity)}]

\* updateMemoryLinks, the write that follows the findFirst: update of the
\* link found (by its id), or create; the store rejects an update of a row
\* that is gone and a create on a key that is taken
WriteLink(lnks, memoryId, peer, existing) ==
    IF existing # {}
    THEN LET row == {l \in lnks : \E x \in existing : SameKey(l, x)}
         IN [failed |-> row = {},
             lnks |-> (lnks \ row) \cup
                      {[l EXCEPT !.strength = peer.similarity,
                                 !.similarity = peer.similarity] : l \in row}]
    ELSE LET new == Link(memoryId, peer.id, "SEMANTIC", peer.similarity, peer.similarity)
         IN IF \E l \in lnks : SameKey(l, new)
            THEN [failed |-> TRUE, lnks |-> lnks]
            ELSE [failed |-> FALSE, lnks |-> lnks \cup {new}]

\* the loops of updateMemoryLinks go on: the next similar row, the next
\* fetched row, or the return
NextTurn(exec) ==
    IF exec.similar # <<>> THEN [exec EXCEPT !.pc = "lookup"]
    ELSE IF exec.i >= Len(exec.snapshot) THEN AfterPhase(exec, TRUE)
    ELSE [exec EXCEPT !.i = @ + 1, !.pc = "scan"]

\* updateMemoryLinks, the findSimilarMemories of one turn of the outer loop
LinksFind(e) ==
    /\ At(e, "linkUpdate", "scan")
    /\ \E row \in {executions[e].snapshot[executions[e].i]} :
        \E found \in {findSimilarMemories(memories, row.embedding, row.id,
                                          similarityThreshold)} :
          Settle(e, IF found.failed THEN AfterPhase(executions[e], FALSE)
                    ELSE NextTurn([executions[e] EXCEPT !.similar = found.similar]))
    /\ UNCHANGED <<memories, links, nextId, now, similarityThreshold, groups, purged, fired, cronService>>

\* updateMemoryLinks, the findFirst of one turn of the inner loop
LinksLookup(e) ==
    /\ At(e, "linkUpdate", "lookup")
    /\ \E found \in {ExistingLinks(links,
                                   executions[e].snapshot[executions[e].i].id,
                                   Head(executions[e].similar).id)} :
         executions' = [executions EXCEPT
            ![e].existing = IF found = {} THEN {} ELSE {CHOOSE l \in found : TRUE},
            ![e].pc = "write"]
    /\ UNCHANGED <<memories, links, nextId, now, similarityThreshold, lastOp, groups, purged, fired, cronService>>

\* updateMemoryLinks, the update or the create of one turn of the inner loop
LinksWrite(e) ==
    /\ At(e, "linkUpdate", "write")
    /\ \E w \in {WriteLink(links, executions[e].snapshot[executions[e].i].id,
                           Head(executions[e].similar), executions[e].existing)} :
         /\ links' = w.lnks
         /\ Settle(e, IF w.failed THEN AfterPhase(executions[e], FALSE)
                      ELSE NextTurn([executions[e] EXCEPT
                                        !.similar = Tail(@), !.existing = {},
                                        !.written = @ \cup (w.lnks \ links)]))
    /\ UNCHANGED <<memories, nextId, now, similarityThreshold, groups, purged, fired, cronService>>

\* createMemory, the generateEmbedding and the memory.create
CreateRow(e, atom) ==
    /\ At(e, "create", "row")
    /\ nextId <= MaxStored
    /\ memories' = [id \in DOMAIN memories \cup {nextId} |->
                      IF id = nextId
                      THEN Row(1, <<atom>>, "EPISODIC", DefaultImportance, 0,
                               JsonStringify(Embed(atom)), now, now, NoMetadata)
                      ELSE memories[id]]
    /\ nextId' = nextId + 1
    /\ executions' = [executions EXCEPT ![e].i = nextId, ![e].created = {nextId},
                                        ![e].pc = "find"]
    /\ UNCHANGED <<links, now, similarityThreshold, lastOp, groups, purged, fired, cronService>>

\* createSemanticLinks, the findSimilarMemories
CreateFind(e) ==
    /\ At(e, "create", "find")
    /\ \E found \in {MemoryService_findSimilarMemories(
                        memories, JsonParse(memories[executions[e].i].embedding),
                        executions[e].i, MemoryServiceThreshold)} :
         Settle(e, IF found.failed THEN AfterPhase(executions[e], FALSE)
                   ELSE [executions[e] EXCEPT !.similar = found.similar, !.pc = "link"])
    /\ UNCHANGED <<memories, links, nextId, now, similarityThreshold, groups, purged, fired, cronService>>

\* createSemanticLinks, the createMany
CreateLink(e) ==
    /\ At(e, "create", "link")
    /\ \E exec \in {executions[e]} :
        \E after \in {CreateManySkipDuplicates(links,
                         [k \in 1..Len(exec.similar) |->
                            Link(exec.i, exec.similar[k].id, "SEMANTIC",
                                 exec.similar[k].similarity,
                                 exec.similar[k].similarity)])} :
          /\ links' = after
          /\ Settle(e, AfterPhase([exec EXCEPT !.written = after \ links], TRUE))
    /\ UNCHANGED <<memories, nextId, now, similarityThreshold, groups, purged, fired, cronService>>

Step(e) ==
    \/ DecayDecrement(e)
    \/ DecayArchive(e)
    \/ DecayPurge(e)
    \/ ConsolidationFetch(e)
    \/ ConsolidationGroups(e)
    \/ LinksFetch(e)
    \/ LinksScan(e)

----------------------------------------------------------------------------
(* CronService: start, stop, scheduleJob *)

\* constructor: this.jobs = new Map(); this.isRunning = false.  tasks are the
\* tasks cron.schedule has made so far, each ticking (running) or not
NewCronService == [isRunning |-> FALSE, jobs |-> <<>>, tasks |-> <<>>]

\* the order in which start() schedules its jobs
StartOrder == <<"memory-decay", "memory-consolidation", "memory-links", "full-evolution">>

\* scheduleJob(name, schedule, task): a job of that name is stopped first;
\* cron.schedule(..., { scheduled: false }), job.start(), this.jobs.set(name, job)
scheduleJob(cs, name) ==
    LET stopped == IF name \in DOMAIN cs.jobs
                   THEN [cs.tasks EXCEPT ![cs.jobs[name]].running = FALSE]
                   ELSE cs.tasks
        job == Len(stopped) + 1
    IN [cs EXCEPT !.tasks = Append(stopped, [name |-> name, running |-> TRUE]),
                  !.jobs = (name :> job) @@ cs.jobs]

RECURSIVE ScheduleAll(_, _)
ScheduleAll(cs, names) ==
    IF names = <<>> THEN cs
    ELSE ScheduleAll(scheduleJob(cs, Head(names)), Tail(names))

\* start(): returns at once when the service is running
start ==
    /\ cronService.isRunning \/ Len(cronService.tasks) < MaxStarts * Len(StartOrder)
    /\ cronService' = IF cronService.isRunning THEN cronService
                      ELSE ScheduleAll([cronService EXCEPT !.isRunning = TRUE], StartOrder)
    /\ lastOp' = [op |-> "start", ok |-> TRUE, wasRunning |-> cronService.isRunning]
    /\ UNCHANGED <<memories, links, nextId, now, similarityThreshold, groups, purged,
                   executions, fired>>

\* a variant that empties the registry without stopping the jobs
stop_ClearOnly ==
    /\ cronService' = IF ~cronService.isRunning THEN cronService
                      ELSE [cronService EXCEPT !.isRunning = FALSE, !.jobs = <<>>]
    /\ lastOp' = [op |-> "stop", ok |-> TRUE, wasRunning |-> cronService.isRunning]
    /\ UNCHANGED <<memories, links, nextId, now, similarityThreshold, groups, purged,
                   executions, fired>>

\* stop(): returns at once when the service is not running; otherwise
\* job.stop() on every job of the registry, then this.jobs.clear()
stop ==
    /\ cronService' =
          IF ~cronService.isRunning THEN cronService
          ELSE [cronService EXCEPT
                  !.isRunning = FALSE,
                  !.tasks = [i \in DOMAIN cronService.tasks |->
                               IF \E name \in DOMAIN cronService.jobs :
                                     cronService.jobs[name] = i
                               THEN [cronService.tasks[i] EXCEPT !.running = FALSE]
                               ELSE cronService.tasks[i]],
                  !.jobs = <<>>]
    /\ lastOp' = [op |-> "stop", ok |-> TRUE, wasRunning |-> cronService.isRunning]
    /\ UNCHANGED <<memories, links, nextId, now, similarityThreshold, groups, purged,
                   executions, fired>>

\* a task that is ticking reaches a time of its schedule
CronTick(i) ==
    /\ i \in DOMAIN cronService.tasks
    /\ cronService.tasks[i].running
    /\ Fire(cronService.tasks[i].name)

----------------------------------------------------------------------------
(* Initial stores *)

\* The day before the purge cutoff of StartDay, and the cutoff day itself.
OldDay == StartDay - MaxMemoryAge - 1
EdgeDay == StartDay - MaxMemoryAge

\* Stores for the decay runs: importance just above zero, just above the purge
\* threshold and just above the archive threshold; read once or twice;
\* created and last read before the cutoff, on it, or today.
DecayRows ==
    {Row(1, <<"east">>, type, importance, accessCount,
         ArrayEmbedding(Embed("east")), dates[1], dates[2], NoMetadata) :
        type \in {"SEMANTIC"},
        importance \in {5, 60, 110},
        accessCount \in {1, 2},
        dates \in {<<OldDay, OldDay>>, <<OldDay, StartDay>>, <<EdgeDay, EdgeDay>>}}
    \cup {Row(1, <<"east">>, "ARCHIVED", 110, 1,
              ArrayEmbedding(Embed("east")), OldDay, OldDay, NoMetadata)}

InitDecay ==
    /\ memories \in [1..DecayCorpus -> DecayRows]
    /\ links \in {{}, {Link(1, DecayCorpus, "SEMANTIC", 1000, 1000)}}
    /\ nextId = DecayCorpus + 1
    /\ now = StartDay
    /\ similarityThreshold = EvolutionDefaultThreshold
    /\ lastOp = [op |-> "none", ok |-> TRUE]
    /\ groups = <<>>
    /\ purged = {}
    /\ executions = <<>>
    /\ fired = 0
    /\ cronService = NewCronService

NextDecay ==
    \/ decayMemories
    \/ MemoryService_decayMemories
    \/ Tick

SpecDecay == InitDecay /\ [][NextDecay]_vars

----------------------------------------------------------------------------
(* Decay: claims *)

\* C1: after any number of decayMemories() calls every memory's importance
\* is >= 0 (the decrement is clamped at 0).
C1_ImportanceNeverNegative ==
    \A id \in DOMAIN memories : memories[id].importance >= 0

\* the importance a row has after the decrement step of a decay call
AfterDecrement(importance) ==
    IF importance > 0 THEN importance - DecayRate ELSE importance

\* C2: a decayMemories() call deletes a memory if and only if createdAt and
\* lastAccessed are both before now - maxMemoryAge, accessCount <= 1 and the
\* importance left by this call's decrement is <= 0.05.
C2_PurgeIffAllFour ==
    [][lastOp'.op = "decayMemories" =>
        \A id \in DOMAIN memories :
            (id \notin DOMAIN memories') <=>
                /\ memories[id].createdAt < now - MaxMemoryAge
                /\ memories[id].lastAccessed < now - MaxMemoryAge
                /\ memories[id].accessCount <= 1
                /\ AfterDecrement(memories[id].importance) <= 50]_vars

\* C2 happens: a call deleted a memory whose importance reached 0.05 in that
\* call, and spared an old, unimportant memory that was read twice.
C2_Witness ==
    /\ lastOp.op = "decayMemories"
    /\ \E r \in purged : r.before.importance = 60 /\ r.atDelete.importance = 50
    /\ \E id \in DOMAIN memories :
        /\ memories[id].accessCount = 2
        /\ memories[id].importance <= 50
        /\ memories[id].createdAt < now - MaxMemoryAge
        /\ memories[id].lastAccessed < now - MaxMemoryAge

\* C3: when a decay call has returned, every memory that still exists and
\* whose importance is <= 0.1 has type ARCHIVED.
C3_LowImportanceArchived ==
    lastOp.op \in {"decayMemories", "MemoryService_decayMemories"} =>
        \A id \in DOMAIN memories :
            memories[id].importance <= 100 => memories[id].type = "ARCHIVED"

\* C3 happens: a memory's importance reached 0.1 in the call that just
\* returned (it was 0.11 before) and the call archived it.
C3_Witness ==
    /\ lastOp.op = "decayMemories"
    /\ lastOp.archived >= 1
    /\ \E id \in DOMAIN memories :
        memories[id].importance = 100 /\ memories[id].type = "ARCHIVED"

\* C4: every memory removed by the purge step of decayMemories() has type
\* ARCHIVED at the moment it is deleted.
C4_PurgedWereArchived ==
    \A r \in purged : r.atDelete.type = "ARCHIVED"

\* C4 happens: a memory that was not ARCHIVED when the call started was
\* archived and then purged by it.
C4_Witness ==
    \E r \in purged : r.before.type # "ARCHIVED" /\ r.atDelete.type = "ARCHIVED"

----------------------------------------------------------------------------
(* Stores for the consolidation runs *)

\* the two agents own the memories alternately
OwnerOf(id) == IF id % 2 = 1 THEN 1 ELSE 2

\* importance and access count of a memory: 0.9 never read, 0.8 read three
\* times, 0.2 read once
Profiles == {<<900, 0>>, <<800, 3>>, <<200, 1>>}

\* a memory as the seeding script or a transfer stores it (the array), as
\* createMemory stores it (the JSON text), or without an embedding
ConsolidationRows ==
    {Row(1, <<atom>>, "SEMANTIC", p[1], p[2],
         ArrayEmbedding(Embed(atom)), StartDay, StartDay, NoMetadata) :
        atom \in Atoms, p \in Profiles}
    \cup {Row(1, <<"east">>, "EPISODIC", 800, 3,
              JsonStringify(Embed("east")), StartDay, StartDay, NoMetadata),
          Row(1, <<"east">>, "EPISODIC", 800, 3,
              NullEmbedding, StartDay, StartDay, NoMetadata)}

InitConsolidation ==
    /\ \E rows \in [1..ConsolidationCorpus -> ConsolidationRows] :
            memories = [id \in 1..ConsolidationCorpus |->
                            [rows[id] EXCEPT !.agentId = OwnerOf(id)]]
    /\ links = {}
    /\ nextId = ConsolidationCorpus + 1
    /\ now = StartDay
    /\ similarityThreshold \in {EvolutionDefaultThreshold, 990}
    /\ lastOp = [op |-> "none", ok |-> TRUE]
    /\ groups = <<>>
    /\ purged = {}
    /\ executions = <<>>
    /\ fired = 0
    /\ cronService = NewCronService

NextConsolidation ==
    \E agentId \in {NoAgent, 1} : consolidateSimilarMemories(agentId)

SpecConsolidation == InitConsolidation /\ [][NextConsolidation]_vars

----------------------------------------------------------------------------
(* Consolidation: claims *)

GroupIds(group) == {group[k].id : k \in 1..Len(group)}
Consolidated(gs) == {g \in 1..Len(gs) : Len(gs[g]) >= 2}
Seed(group) == group[1]
IsSimilar(e1, e2, threshold) ==
    LET sim == calculateSimilarity(e1, e2)
    IN ~sim.throws /\ ~sim.nan /\ sim.value >= threshold
ConsolidationReturned ==
    lastOp.op = "consolidateSimilarMemories" /\ lastOp.ok

\* C5: in one consolidateSimilarMemories() run every memory belongs to at
\* most one group, seeds are taken in descending importance order, and a
\* memory similar to two seeds is grouped with the higher-importance one.
C5_OneGroupPerMemory ==
    /\ \A g, h \in 1..Len(groups) :
        g # h => GroupIds(groups[g]) \cap GroupIds(groups[h]) = {}
    /\ \A g \in 1..Len(groups) : Cardinality(GroupIds(groups[g])) = Len(groups[g])
    /\ \A g, h \in 1..Len(groups) :
        g < h => Seed(groups[g]).importance >= Seed(groups[h]).importance
    /\ \A g, h \in 1..Len(groups) : \A k \in 2..Len(groups[g]) :
        (g # h /\ IsSimilar(Seed(groups[h]).embedding, groups[g][k].embedding,
                            similarityThreshold))
            => Seed(groups[g]).importance >= Seed(groups[h]).importance

\* C5 happens: a memory similar to two seeds of the run sits in the group of
\* the more important one, and the other seed stands alone.
C5_Witness ==
    \E g, h \in 1..Len(groups) : \E k \in 2..Len(groups[g]) :
        /\ g # h
        /\ IsSimilar(Seed(groups[h]).embedding, groups[g][k].embedding,
                     similarityThreshold)
        /\ IsSimilar(Seed(groups[g]).embedding, groups[g][k].embedding,
                     similarityThreshold)
        /\ Seed(groups[g]).importance > Seed(groups[h]).importance

\* the members of a group whose row is not ARCHIVED in the store
Survivors(group) ==
    {k \in 1..Len(group) :
        group[k].id \in DOMAIN memories => memories[group[k].id].type # "ARCHIVED"}

\* C6: after a run completes, in every group of size >= 2 exactly one
\* member, one with the highest importance * ln(accessCount + 1), keeps a
\* non-ARCHIVED type; every other member still exists, is ARCHIVED with
\* metadata.consolidatedInto the primary's id, and is the target of a
\* HIERARCHICAL link from the primary.
C6_PrimaryAndSecondaries ==
    ConsolidationReturned =>
        \A g \in Consolidated(groups) :
            \E p \in 1..Len(groups[g]) :
                LET primary == groups[g][p] IN
                /\ Survivors(groups[g]) = {p}
                /\ primary.id \in DOMAIN memories
                /\ \A k \in 1..Len(groups[g]) : Score(primary) >= Score(groups[g][k])
                /\ \A k \in 1..Len(groups[g]) \ {p} :
                    LET secondary == groups[g][k] IN
                    /\ secondary.id \in DOMAIN memories
                    /\ memories[secondary.id].type = "ARCHIVED"
                    /\ <<"consolidatedInto", primary.id>> \in memories[secondary.id].metadata
                    /\ \E l \in links :
                        /\ l.linkType = "HIERARCHICAL"
                        /\ l.sourceId = primary.id
                        /\ l.targetId = secondary.id

\* C6 happens: a completed run formed a group of three whose seed is not the
\* primary, so the seed itself was archived.
C6_Witness ==
    /\ ConsolidationReturned
    /\ \E g \in Consolidated(groups) :
        /\ Len(groups[g]) = 3
        /\ memories[Seed(groups[g]).id].type = "ARCHIVED"

\* C7: the primary's new accessCount is the sum of the members' accessCount
\* and its new importance is the mean of the members' importance (to the
\* thousandth), capped at 1.0, all as read at the start of the run.
C7_SumAndMean ==
    lastOp.op = "consolidateSimilarMemories" =>
        \A g \in Consolidated(groups) : \A p \in Survivors(groups[g]) :
            LET n == Len(groups[g])
                count == SumSeq([k \in 1..n |-> groups[g][k].accessCount])
                total == SumSeq([k \in 1..n |-> groups[g][k].importance])
                row == memories[groups[g][p].id]
            IN /\ row.accessCount = count
               /\ \/ row.importance < 1000 /\ n * row.importance <= total
                                           /\ total < n * (row.importance + 1)
                  \/ row.importance = 1000 /\ total >= n * 1000

\* C7 happens: a group of 0.9 (never read) and 0.8 (read three times) left a
\* primary of importance 0.85 read three times.
C7_Witness ==
    /\ ConsolidationReturned
    /\ \E g \in Consolidated(groups) : \E p \in Survivors(groups[g]) :
        /\ Len(groups[g]) = 2
        /\ Seed(groups[g]).importance = 900 /\ Seed(groups[g]).accessCount = 0
        /\ groups[g][2].importance = 800 /\ groups[g][2].accessCount = 3
        /\ memories[groups[g][p].id].importance = 850
        /\ memories[groups[g][p].id].accessCount = 3

LinksOf(lnks, id) == {l \in lnks : l.sourceId = id \/ l.targetId = id}

\* the rows a run for agentId reads
Scanned(agentId) ==
    {id \in DOMAIN memories :
        /\ memories[id].type # "ARCHIVED"
        /\ memories[id].embedding.repr # "null"
        /\ (agentId # 0 => memories[id].agentId = agentId)}

\* the spec's scenario: embeddings [1,0], [1,0], [0,1], importance 0.9, 0.8,
\* 0.2, threshold 0.99
Scenario ==
    /\ DOMAIN memories = {1, 2, 3}
    /\ similarityThreshold = 990
    /\ \A id \in {1, 2, 3} : memories[id].type # "ARCHIVED"
    /\ memories[1].embedding = ArrayEmbedding(<<1, 0>>) /\ memories[1].importance = 900
    /\ memories[2].embedding = ArrayEmbedding(<<1, 0>>) /\ memories[2].importance = 800
    /\ memories[3].embedding = ArrayEmbedding(<<0, 1>>) /\ memories[3].importance = 200

\* C8: a run leaves untouched (row and links) every memory that has no
\* unclaimed similar peer; the returned count is the number of groups of size
\* >= 2 formed; in the scenario that is one group and memory 3 unchanged.
C8_OthersUntouched ==
    [][lastOp'.op = "consolidateSimilarMemories" =>
        /\ \A g \in 1..Len(groups') :
              Len(groups'[g]) = 1 =>
                  /\ memories'[Seed(groups'[g]).id] = memories[Seed(groups'[g]).id]
                  /\ LinksOf(links', Seed(groups'[g]).id) = LinksOf(links, Seed(groups'[g]).id)
        /\ \A id \in DOMAIN memories :
              (\/ id \notin Scanned(lastOp'.agentId)
               \/ \A peer \in Scanned(lastOp'.agentId) \ {id} :
                     ~IsSimilar(memories[id].embedding, memories[peer].embedding,
                                similarityThreshold))
              => /\ id \in DOMAIN memories'
                 /\ memories'[id] = memories[id]
                 /\ LinksOf(links', id) = LinksOf(links, id)
        /\ lastOp'.ok =>
              /\ lastOp'.consolidated = Cardinality(Consolidated(groups'))
              /\ lastOp'.consolidated =
                    Cardinality({p \in DOMAIN memories :
                        \E id \in DOMAIN memories :
                            /\ memories[id].type # "ARCHIVED"
                            /\ memories'[id].type = "ARCHIVED"
                            /\ <<"consolidatedInto", p>> \in memories'[id].metadata})
        /\ (Scenario /\ lastOp'.agentId = 0) =>
              /\ lastOp'.ok
              /\ lastOp'.consolidated = 1
              /\ GroupIds(groups'[1]) = {1, 2}
              /\ memories'[3] = memories[3]
              /\ LinksOf(links', 3) = LinksOf(links, 3)]_vars

\* C8 happens: the scenario was run: memories 1 and 2 are one group, memory 3
\* stands alone as it was.
C8_Witness ==
    /\ ConsolidationReturned
    /\ lastOp.consolidated = 1
    /\ similarityThreshold = 990
    /\ Len(groups) = 2 /\ GroupIds(groups[1]) = {1, 2} /\ GroupIds(groups[2]) = {3}
    /\ memories[1].importance = 850 /\ memories[2].type = "ARCHIVED"
    /\ memories[3].embedding = ArrayEmbedding(<<0, 1>>)
    /\ memories[3].importance = 200 /\ memories[3].type = "SEMANTIC"
    /\ memories[3].metadata = {}

\* C9: a second consolidateSimilarMemories() run right after a successful
\* one forms no group and changes no memory and no link.
C9_SecondRunChangesNothing ==
    [][(/\ ConsolidationReturned
        /\ lastOp'.op = "consolidateSimilarMemories"
        /\ lastOp'.agentId = lastOp.agentId)
       => /\ lastOp'.ok
          /\ lastOp'.consolidated = 0
          /\ memories' = memories
          /\ links' = links]_vars

----------------------------------------------------------------------------
(* Stores for the link runs *)

\* seed.js links two seeded memories i < j when their similarity exceeds 0.7
SeedLinkThreshold == 700

\* the memories seed.js leaves: each with the array generateEmbedding gave
SeedRows ==
    {Row(1, <<atom>>, "SEMANTIC", 800, 0,
         ArrayEmbedding(Embed(atom)), StartDay, StartDay, NoMetadata) : atom \in Atoms}

\* the links seed.js leaves between the rows it created
SeedLinks(mems) ==
    {Link(i, j, "SEMANTIC",
          calculateSimilarity(mems[i].embedding, mems[j].embedding).value,
          calculateSimilarity(mems[i].embedding, mems[j].embedding).value) :
        <<i, j>> \in {p \in (DOMAIN mems) \X (DOMAIN mems) :
                        /\ p[1] < p[2]
                        /\ calculateSimilarity(mems[p[1]].embedding,
                                               mems[p[2]].embedding).value
                               > SeedLinkThreshold}}

\* an empty store, or the store after seeding
InitLinks ==
    /\ \E n \in 0..LinksCorpus :
        /\ \E rows \in [1..n -> SeedRows] :
              /\ memories = rows
              /\ links = SeedLinks(rows)
        /\ nextId = n + 1
    /\ now = StartDay
    /\ similarityThreshold \in {EvolutionDefaultThreshold, 990}
    /\ lastOp = [op |-> "none", ok |-> TRUE]
    /\ groups = <<>>
    /\ purged = {}
    /\ executions = <<>>
    /\ fired = 0
    /\ cronService = NewCronService

\* the contents the callers of createMemory and updateMemory send
NewContents == {"east", "diagonal"}

NextLinks ==
    \/ \E atom \in NewContents, embedderUp \in BOOLEAN :
            createMemory(1, atom, "EPISODIC", embedderUp)
    \/ \E id \in MemIds, atom \in NewContents, embedderUp \in BOOLEAN :
            updateMemory(id, atom, NoType, embedderUp)
    \/ \E embedderUp \in BOOLEAN :
            transferKnowledge(1, 2, embedderUp) /\ nextId' <= MaxMem + 1
    \/ updateMemoryLinks

SpecLinks == InitLinks /\ [][NextLinks]_vars

----------------------------------------------------------------------------
(* Links: claims *)

\* the SEMANTIC links between a and b, in either direction
SemanticBetween(lnks, a, b) ==
    {l \in lnks : /\ l.linkType = "SEMANTIC"
                  /\ {l.sourceId, l.targetId} = {a, b}}

AtMostOneSemantic(lnks) ==
    \A a \in MemIds, b \in MemIds : Cardinality(SemanticBetween(lnks, a, b)) <= 1

\* a SEMANTIC link whose two memories updateMemoryLinks reads and finds
\* similar again
Rediscovered(l) ==
    /\ l.linkType = "SEMANTIC"
    /\ l.sourceId # l.targetId
    /\ \A id \in {l.sourceId, l.targetId} :
          /\ id \in DOMAIN memories
          /\ memories[id].type # "ARCHIVED"
          /\ memories[id].embedding.repr = "array"
    /\ AtLeast(calculateSimilarity(memories[l.sourceId].embedding,
                                   memories[l.targetId].embedding),
               similarityThreshold)

\* C10: after every createMemory, updateMemory and updateMemoryLinks call no
\* unordered pair of memories has more than one SEMANTIC link, both
\* directions counted together; and when updateMemoryLinks finds a pair
\* similar that is linked already, in whichever direction, that one link
\* stays the pair's only link, keeps its direction and carries the freshly
\* computed strength and similarity.
C10_OneSemanticLinkPerPair ==
    /\ [](lastOp.op \in {"createMemory", "updateMemory", "updateMemoryLinks"}
            => AtMostOneSemantic(links))
    /\ [][(lastOp'.op = "updateMemoryLinks" /\ lastOp'.ok)
          => \A l \in links :
                Rediscovered(l) =>
                    SemanticBetween(links', l.sourceId, l.targetId) =
                        {Link(l.sourceId, l.targetId, "SEMANTIC",
                              calculateSimilarity(memories[l.sourceId].embedding,
                                                  memories[l.targetId].embedding).value,
                              calculateSimilarity(memories[l.sourceId].embedding,
                                                  memories[l.targetId].embedding).value)}]_vars

\* C10 happens: in one updateMemoryLinks pass a pair without a link was
\* linked from its first end and found linked from its other end, where the
\* link was updated; every pair of memories has at most its one link.
C10_Witness ==
    /\ lastOp.op = "updateMemoryLinks"
    /\ lastOp.ok
    /\ lastOp.linksCreated >= 1
    /\ lastOp.linksUpdated > lastOp.linksCreated
    /\ \E a \in DOMAIN memories, b \in DOMAIN memories :
          /\ a < b
          /\ <<"originalMemoryId", a>> \in memories[b].metadata
          /\ SemanticBetween(links, a, b) = {Link(a, b, "SEMANTIC", 1000, 1000)}

\* C11: an updateMemoryLinks() run right after another, with no memory
\* changed in between, leaves the links as the first run left them, with
\* the same strength and similarity, and reports linksCreated = 0.
C11_SecondLinkUpdateChangesNothing ==
    [][(/\ lastOp.op = "updateMemoryLinks"
        /\ lastOp'.op = "updateMemoryLinks")
       => /\ links' = links
          /\ lastOp'.ok = lastOp.ok
          /\ lastOp'.ok => lastOp'.linksCreated = 0]_vars

\* C11 happens: a second run in a row returned; it found the links of the
\* first, a link to a transferred copy among them, updated them and created
\* none.
C11_Witness ==
    /\ lastOp.op = "updateMemoryLinks"
    /\ lastOp.ok
    /\ lastOp.repeated
    /\ lastOp.linksCreated = 0
    /\ lastOp.linksUpdated >= 2
    /\ \E l \in links :
          /\ l.linkType = "SEMANTIC"
          /\ <<"originalMemoryId", l.sourceId>> \in memories[l.targetId].metadata

----------------------------------------------------------------------------
(* Links and ARCHIVED memories *)

\* the types the callers of PUT /:id send here: none, or ARCHIVED
NewTypes == {NoType, "ARCHIVED"}

\* an empty or seeded store, under the default thresholds
InitArchivedLinks == InitLinks /\ similarityThreshold = EvolutionDefaultThreshold

NextArchivedLinks ==
    \/ createMemory(1, "east", "EPISODIC", TRUE)
    \/ \E id \in MemIds, atom \in {"east", NoContent}, type \in NewTypes :
            updateMemory(id, atom, type, TRUE)
    \/ updateMemoryLinks

SpecArchivedLinks == InitArchivedLinks /\ [][NextArchivedLinks]_vars

\* the links a step wrote: created, or updated to another value
Written(before, after) == after \ before

\* C12: no createMemory, updateMemory or updateMemoryLinks step writes a
\* SEMANTIC link whose source or target memory has type ARCHIVED when the
\* link is written.
C12_NoArchivedEndpoint ==
    [][\A l \in Written(links, links') :
          l.linkType = "SEMANTIC"
            => /\ memories'[l.sourceId].type # "ARCHIVED"
               /\ memories'[l.targetId].type # "ARCHIVED"]_vars

----------------------------------------------------------------------------
(* Stores for the transfer runs *)

\* type, content, importance and stored embedding of a memory: at, above and
\* below the transfer floor, of a type transferred or not, the embedding an
\* array, a JSON text or absent
TransferRows ==
    {Row(1, <<"east">>, "SEMANTIC", 900, 0, ArrayEmbedding(Embed("east")),
         StartDay, StartDay, NoMetadata),
     Row(1, <<"diagonal">>, "SEMANTIC", 500, 0, ArrayEmbedding(Embed("diagonal")),
         StartDay, StartDay, NoMetadata),
     Row(1, <<"east">>, "SEMANTIC", 400, 0, ArrayEmbedding(Embed("east")),
         StartDay, StartDay, NoMetadata),
     Row(1, <<"east">>, "PROCEDURAL", 900, 0, ArrayEmbedding(Embed("east")),
         StartDay, StartDay, NoMetadata),
     Row(1, <<"east">>, "EPISODIC", 900, 0, ArrayEmbedding(Embed("east")),
         StartDay, StartDay, NoMetadata),
     Row(1, <<"east">>, "SEMANTIC", 900, 0, JsonStringify(Embed("east")),
         StartDay, StartDay, NoMetadata),
     Row(1, <<"east">>, "SEMANTIC", 900, 0, NullEmbedding,
         StartDay, StartDay, NoMetadata)}

InitTransfer ==
    /\ \E rows \in [1..TransferCorpus -> TransferRows],
          owner \in [1..TransferCorpus -> {1, 2}] :
            memories = [id \in 1..TransferCorpus |->
                            [rows[id] EXCEPT !.agentId = owner[id]]]
    /\ links = {}
    /\ nextId = TransferCorpus + 1
    /\ now = StartDay
    /\ similarityThreshold = EvolutionDefaultThreshold
    /\ lastOp = [op |-> "none", ok |-> TRUE]
    /\ groups = <<>>
    /\ purged = {}
    /\ executions = <<>>
    /\ fired = 0
    /\ cronService = NewCronService

NextTransfer ==
    \E sourceAgentId \in {1, 2}, targetAgentId \in {1, 2}, embedderUp \in BOOLEAN :
        transferKnowledge(sourceAgentId, targetAgentId, embedderUp)

SpecTransfer == InitTransfer /\ [][NextTransfer]_vars

----------------------------------------------------------------------------
(* Transfer: claims *)

\* the memories a step inserted
Inserted(before, after) == DOMAIN after \ DOMAIN before

\* the inserted memories that name id as their original
CopiesOf(before, after, id) ==
    {n \in Inserted(before, after) : <<"originalMemoryId", id>> \in after[n].metadata}

\* the source memories worth transferring
WorthTransferring(mems, sourceAgentId) ==
    {id \in DOMAIN mems : /\ mems[id].agentId = sourceAgentId
                          /\ mems[id].type \in TransferTypes
                          /\ mems[id].importance >= TransferFloor}

\* the target agent has a memory of id's type that is similar to id's
\* content: one it had before the call, or one the call inserted for an
\* earlier source memory
KnownToTarget(before, after, id, targetAgentId, threshold) ==
    \E t \in DOMAIN after :
        /\ after[t].agentId = targetAgentId
        /\ after[t].type = before[id].type
        /\ \/ t \in DOMAIN before
           \/ \E o \in DOMAIN before : o < id /\ t \in CopiesOf(before, after, o)
        /\ after[t].embedding.repr # "null"
        /\ AtLeast(calculateSimilarity(
                      ArrayEmbedding(generateEmbedding(before[id].content)),
                      after[t].embedding), threshold)

TransferReturned == lastOp.op = "transferKnowledge" /\ lastOp.ok

\* C13: a transferKnowledge(source, target) call that returns inserts one
\* memory for a source memory exactly when the source memory's type is one
\* of memoryTypes, its importance is at least 0.5 and the target agent has
\* no memory of that type with similarity >= similarityThreshold to it; the
\* inserted memory belongs to the target, has the source's content and type,
\* 0.8 times its importance and metadata.transferred; nothing else is
\* inserted, and transferred is the number of memories inserted.
C13_TransferInsertsIff ==
    [][TransferReturned'
       => /\ \A id \in DOMAIN memories :
                /\ Cardinality(CopiesOf(memories, memories', id)) <= 1
                /\ CopiesOf(memories, memories', id) # {}
                     <=> /\ id \in WorthTransferring(memories, lastOp'.sourceAgentId)
                         /\ ~KnownToTarget(memories, memories', id,
                                           lastOp'.targetAgentId, similarityThreshold)
                /\ \A n \in CopiesOf(memories, memories', id) :
                      /\ memories'[n].agentId = lastOp'.targetAgentId
                      /\ memories'[n].content = memories[id].content
                      /\ memories'[n].type = memories[id].type
                      /\ memories'[n].importance * 10
                            = memories[id].importance * TransferFactor
                      /\ <<"transferred", 1>> \in memories'[n].metadata
          /\ \A n \in Inserted(memories, memories') :
                \E id \in DOMAIN memories : n \in CopiesOf(memories, memories', id)
          /\ lastOp'.transferred = Cardinality(Inserted(memories, memories'))]_vars

\* C13 happens: one call looked at two source memories worth transferring,
\* inserted a copy of the first with importance 0.72 and skipped the second,
\* which is similar to that copy.
C13_Witness ==
    /\ TransferReturned
    /\ lastOp.transferred = 1
    /\ lastOp.totalSourceMemories = 2
    /\ lastOp.sourceAgentId # lastOp.targetAgentId
    /\ \E n \in DOMAIN memories :
          /\ n > TransferCorpus
          /\ memories[n].agentId = lastOp.targetAgentId
          /\ memories[n].importance = 720
          /\ <<"transferred", 1>> \in memories[n].metadata
          /\ <<"originalMemoryId", 1>> \in memories[n].metadata
    /\ \A id \in 1..TransferCorpus : memories[id].agentId = lastOp.sourceAgentId

\* C14: a transferKnowledge call right after one with the same arguments
\* that returned inserts no memory; and no transferKnowledge call changes or
\* deletes a memory that was there before it, the source agent's included.
C14_TransferIdempotentCopy ==
    [][lastOp'.op = "transferKnowledge"
       => /\ \A id \in DOMAIN memories :
                id \in DOMAIN memories' /\ memories'[id] = memories[id]
          /\ (/\ TransferReturned
              /\ lastOp'.sourceAgentId = lastOp.sourceAgentId
              /\ lastOp'.targetAgentId = lastOp.targetAgentId)
             => Inserted(memories, memories') = {}]_vars

\* C14 happens: agent 1 has one memory worth transferring, of importance
\* 0.9; the first transfer gave agent 2 a copy of importance 0.72, the second
\* run of the same transfer returned and transferred nothing, and the source
\* memory is as it was.
C14_Witness ==
    /\ TransferReturned
    /\ lastOp.repeated
    /\ lastOp.sourceAgentId = 1 /\ lastOp.targetAgentId = 2
    /\ lastOp.transferred = 0
    /\ lastOp.totalSourceMemories = 1
    /\ memories[1] = Row(1, <<"east">>, "SEMANTIC", 900, 0,
                         ArrayEmbedding(Embed("east")), StartDay, StartDay, NoMetadata)
    /\ {id \in DOMAIN memories : memories[id].agentId = 2 /\ id > TransferCorpus}
            = {TransferCorpus + 1}
    /\ memories[TransferCorpus + 1].importance = 720
    /\ <<"transferred", 1>> \in memories[TransferCorpus + 1].metadata
    /\ <<"originalMemoryId", 1>> \in memories[TransferCorpus + 1].metadata

----------------------------------------------------------------------------
(* Stores for the delete runs *)

\* Memories about to be purged or not, with links of both kinds between the
\* first and the last of them.
DeleteRows ==
    {Row(1, <<"east">>, "SEMANTIC", importance, accessCount,
         ArrayEmbedding(Embed("east")), OldDay, lastAccessed, NoMetadata) :
        importance \in {5, 60}, accessCount \in {1, 2}, lastAccessed \in {OldDay, StartDay}}

InitDelete ==
    /\ memories \in [1..DecayCorpus -> DeleteRows]
    /\ links \in SUBSET {Link(1, DecayCorpus, "SEMANTIC", 1000, 1000),
                         Link(DecayCorpus, 1, "HIERARCHICAL", 1000, 1000)}
    /\ nextId = DecayCorpus + 1
    /\ now = StartDay
    /\ similarityThreshold = EvolutionDefaultThreshold
    /\ lastOp = [op |-> "none", ok |-> TRUE]
    /\ groups = <<>>
    /\ purged = {}
    /\ executions = <<>>
    /\ fired = 0
    /\ cronService = NewCronService

NextDelete ==
    \/ decayMemories
    \/ \E memoryId \in MemIds : deleteMemory(memoryId)

SpecDelete == InitDelete /\ [][NextDelete]_vars

----------------------------------------------------------------------------
(* Deleting: claims *)

----------------------------------------------------------------------------
(* Stores for the similarity look-ups *)

\* What the rows of a store repeat: the kinds of row, in id order.
FindPalettes ==
    {<<[atom |-> "east", type |-> "SEMANTIC", repr |-> "array"]>>,
     <<[atom |-> "diagonal", type |-> "SEMANTIC", repr |-> "array"],
       [atom |-> "east", type |-> "EPISODIC", repr |-> "array"]>>,
     <<[atom |-> "north", type |-> "SEMANTIC", repr |-> "array"],
       [atom |-> "east", type |-> "ARCHIVED", repr |-> "array"],
       [atom |-> "diagonal", type |-> "SEMANTIC", repr |-> "null"],
       [atom |-> "diagonal", type |-> "SEMANTIC", repr |-> "array"]>>,
     <<[atom |-> "diagonal", type |-> "SEMANTIC", repr |-> "string"],
       [atom |-> "east", type |-> "ARCHIVED", repr |-> "string"],
       [atom |-> "north", type |-> "SEMANTIC", repr |-> "null"]>>,
     <<[atom |-> "east", type |-> "SEMANTIC", repr |-> "string"],
       [atom |-> "east", type |-> "SEMANTIC", repr |-> "array"]>>}

FindRow(kind) ==
    Row(1, <<kind.atom>>, kind.type, 500, 0,
        [repr |-> kind.repr, vec |-> IF kind.repr = "null" THEN <<>> ELSE Embed(kind.atom)],
        StartDay, StartDay, NoMetadata)

InitFind ==
    /\ \E n \in 0..FindCorpus, palette \in FindPalettes :
          memories = [id \in 1..n |-> FindRow(palette[((id - 1) % Len(palette)) + 1])]
    /\ links = {}
    /\ nextId = Cardinality(DOMAIN memories) + 1
    /\ now = StartDay
    /\ similarityThreshold \in {EvolutionDefaultThreshold, 990}
    /\ lastOp = [op |-> "none", ok |-> TRUE]
    /\ groups = <<>>
    /\ purged = {}
    /\ executions = <<>>
    /\ fired = 0
    /\ cronService = NewCronService

\* a call of MemoryEvolutionService.findSimilarMemories(embedding, excludeId)
EvolutionFind(embedding, excludeId) ==
    /\ \E r \in {findSimilarMemories(memories, ArrayEmbedding(embedding), excludeId,
                                      similarityThreshold)} :
          lastOp' = [op |-> "findSimilarMemories", ok |-> ~r.failed, limited |-> TRUE,
                     embedding |-> embedding, excludeId |-> excludeId,
                     threshold |-> similarityThreshold, similar |-> r.similar]
    /\ UNCHANGED <<memories, links, nextId, now, similarityThreshold, groups, purged, executions, fired, cronService>>

\* a call of MemoryService.findSimilarMemories(embedding, excludeId)
ServiceFind(embedding, excludeId) ==
    /\ \E r \in {MemoryService_findSimilarMemories(memories, embedding, excludeId,
                                                    MemoryServiceThreshold)} :
          lastOp' = [op |-> "findSimilarMemories", ok |-> ~r.failed, limited |-> FALSE,
                     embedding |-> embedding, excludeId |-> excludeId,
                     threshold |-> MemoryServiceThreshold, similar |-> r.similar]
    /\ UNCHANGED <<memories, links, nextId, now, similarityThreshold, groups, purged, executions, fired, cronService>>

\* the ids a caller excludes: stored ones and one that is not stored
ExcludeIds == {1, 2, FindCorpus + 1}

NextFind ==
    \/ \E embedding \in Vectors, excludeId \in ExcludeIds : EvolutionFind(embedding, excludeId)
    \/ \E embedding \in Vectors, excludeId \in ExcludeIds : ServiceFind(embedding, excludeId)

SpecFind == InitFind /\ [][NextFind]_vars

----------------------------------------------------------------------------
(* Similarity look-ups: claims *)

\* C19: whatever the query vector, the corpus and the excluded id, the list
\* findSimilarMemories returns does not hold the excluded id, holds no entry
\* whose similarity is below the threshold, is in non-increasing order of
\* similarity with equal entries in corpus order (ascending id), and, in the
\* evolution service, has at most 10 entries.
C19_FindSimilarContract ==
    (lastOp.op = "findSimilarMemories" /\ lastOp.ok) =>
        LET similar == lastOp.similar
        IN /\ \A i \in 1..Len(similar) :
                /\ similar[i].id # lastOp.excludeId
                /\ similar[i].id \in DOMAIN memories
                /\ similar[i].similarity >= lastOp.threshold
           /\ \A i, j \in 1..Len(similar) :
                i < j => /\ similar[i].similarity >= similar[j].similarity
                         /\ (similar[i].similarity = similar[j].similarity
                                => similar[i].id < similar[j].id)
           /\ lastOp.limited => Len(similar) <= SimilarLimit

\* The evolution service's look-up over more than ten similar memories: ten
\* entries, the exact matches first although one has a larger id than a
\* later entry, the excluded memory a stored one.
C19_Witness ==
    /\ lastOp.op = "findSimilarMemories" /\ lastOp.ok /\ lastOp.limited
    /\ Cardinality(DOMAIN memories) > SimilarLimit + 1
    /\ lastOp.excludeId \in DOMAIN memories
    /\ Len(lastOp.similar) = SimilarLimit
    /\ lastOp.similar[1].similarity > lastOp.similar[SimilarLimit].similarity
    /\ \E i \in 1..SimilarLimit : lastOp.similar[1].id > lastOp.similar[i].id
    /\ lastOp.similar[1].similarity = lastOp.similar[2].similarity

----------------------------------------------------------------------------
(* Calls of calculateSimilarity *)

\* what a caller passes: null, or an array
SimilarityInputs == {NullEmbedding} \cup {ArrayEmbedding(v) : v \in Vectors}

InitSimilarity ==
    /\ memories = <<>>
    /\ links = {}
    /\ nextId = 1
    /\ now = StartDay
    /\ similarityThreshold = EvolutionDefaultThreshold
    /\ lastOp = [op |-> "none", ok |-> TRUE]
    /\ groups = <<>>
    /\ purged = {}
    /\ executions = <<>>
    /\ fired = 0
    /\ cronService = NewCronService

\* a call of embeddingService.calculateSimilarity(embedding1, embedding2)
CallSimilarity(embedding1, embedding2) ==
    /\ \E r \in {calculateSimilarity(embedding1, embedding2)} :
          lastOp' = [op |-> "calculateSimilarity", ok |-> ~r.throws,
                     embedding1 |-> embedding1, embedding2 |-> embedding2, result |-> r]
    /\ UNCHANGED <<memories, links, nextId, now, similarityThreshold, groups, purged, executions, fired, cronService>>

NextSimilarity ==
    \E embedding1 \in SimilarityInputs, embedding2 \in SimilarityInputs :
        CallSimilarity(embedding1, embedding2)

SpecSimilarity == InitSimilarity /\ [][NextSimilarity]_vars

----------------------------------------------------------------------------
(* calculateSimilarity: claims *)

Absent(e) == e.repr = "null"
NonEmpty(e) == e.repr = "array" /\ Len(e.vec) > 0
ZeroNorm(e) == e.repr = "array" /\ \A i \in 1..Len(e.vec) : e.vec[i] = 0
DifferentLengths(e1, e2) ==
    NonEmpty(e1) /\ NonEmpty(e2) /\ Len(e1.vec) # Len(e2.vec)

\* C20: calculateSimilarity returns 0 and raises nothing when either vector
\* is absent or has zero norm; it raises 'Embeddings must have the same
\* dimensions', and returns no value, when both vectors are present and
\* non-empty with different lengths (which is read as the rule for two
\* non-empty vectors of different lengths of which one has zero norm).
C20_SimilarityContract ==
    lastOp.op = "calculateSimilarity" =>
        LET e1 == lastOp.embedding1
            e2 == lastOp.embedding2
        IN /\ DifferentLengths(e1, e2) => lastOp.result = SimThrows
           /\ (/\ ~DifferentLengths(e1, e2)
               /\ Absent(e1) \/ Absent(e2) \/ ZeroNorm(e1) \/ ZeroNorm(e2))
                => lastOp.result = SimValue(0)

----------------------------------------------------------------------------
(* Stores for the scheduled runs *)

\* Two fresh memories of one agent with the same content, one of them two
\* decays away from the archive threshold.
CronStore ==
    [id \in 1..2 |->
        Row(1, <<"east">>, "SEMANTIC", IF id = 1 THEN 120 ELSE 900, id,
            ArrayEmbedding(Embed("east")), StartDay, StartDay, NoMetadata)]

InitCron ==
    /\ memories = CronStore
    /\ links = {}
    /\ nextId = 3
    /\ now = StartDay
    /\ similarityThreshold = EvolutionDefaultThreshold
    /\ lastOp = [op |-> "none", ok |-> TRUE]
    /\ groups = <<>>
    /\ purged = {}
    /\ executions = <<>>
    /\ fired = 0
    /\ cronService = NewCronService

NextCron ==
    \/ \E job \in Jobs : Fire(job)
    \/ \E e \in 1..MaxRuns : Step(e)
    \/ \E e \in 1..MaxRuns : Reject(e)

SpecCron == InitCron /\ [][NextCron]_vars

----------------------------------------------------------------------------
(* Scheduled runs: claims *)

Cycle == <<"decay", "consolidation", "linkUpdate">>

IsPrefix(s, t) == Len(s) <= Len(t) /\ s = SubSeq(t, 1, Len(s))

\* C15: runEvolutionCycle starts its phases in the order decay, consolidation,
\* link update, each one only when all the phases before it have returned;
\* when a phase throws no later phase is started and the caller gets the
\* error, not a result.
C15_CycleInOrder ==
    /\ \A e \in DOMAIN executions :
         executions[e].job = "full-evolution" =>
            /\ IsPrefix(executions[e].started, Cycle)
            /\ executions[e].started = Append(executions[e].finished, executions[e].phase)
            /\ executions[e].failed = <<>>
    /\ (lastOp.op = "execution" /\ lastOp.job = "full-evolution") =>
         IF lastOp.ok
         THEN lastOp.started = Cycle /\ lastOp.finished = Cycle /\ lastOp.failed = <<>>
         ELSE /\ IsPrefix(lastOp.started, Cycle)
              /\ Len(lastOp.failed) = 1
              /\ lastOp.started = lastOp.finished \o lastOp.failed

\* A cycle whose consolidation threw after its decay had returned: the link
\* update was not started, the caller got the error.
C15_Witness ==
    /\ lastOp.op = "execution" /\ lastOp.job = "full-evolution"
    /\ ~lastOp.ok
    /\ lastOp.finished = <<"decay">>
    /\ lastOp.failed = <<"consolidation">>
    /\ lastOp.started = <<"decay", "consolidation">>
    /\ \A e \in DOMAIN executions : executions[e].job # "full-evolution"

\* C16: no two executions in flight are in a phase of the same kind, whatever
\* job or request started them.
C16_OnePhaseOfAKind ==
    \A e1, e2 \in DOMAIN executions :
        e1 # e2 => executions[e1].phase # executions[e2].phase

----------------------------------------------------------------------------
(* Stores for the runs that other operations interleave with *)

\* Two important memories of the first agent, similar to each other; the
\* second agent has none.
InitSnapshot ==
    /\ memories = [id \in 1..2 |->
                     Row(1, <<IF id = 1 THEN "east" ELSE "diagonal">>, "SEMANTIC", 900, id,
                         ArrayEmbedding(Embed(IF id = 1 THEN "east" ELSE "diagonal")),
                         StartDay, StartDay, NoMetadata)]
    /\ links = {}
    /\ nextId = 3
    /\ now = StartDay
    /\ similarityThreshold = EvolutionDefaultThreshold
    /\ lastOp = [op |-> "none", ok |-> TRUE]
    /\ groups = <<>>
    /\ purged = {}
    /\ executions = <<>>
    /\ fired = 0
    /\ cronService = NewCronService

NextSnapshot ==
    \/ \E job \in {"memory-links", "memory-consolidation", TransferCall} : Fire(job)
    \/ \E e \in 1..MaxRuns :
          \/ ConsolidationFetch(e)
          \/ ConsolidationGroups(e)
          \/ LinksFetch(e)
          \/ LinksScan(e)
          \/ TransferFetch(e)
          \/ TransferCopy(e)
    \/ createMemory(2, "east", "SEMANTIC", TRUE)

SpecSnapshot == InitSnapshot /\ [][NextSnapshot]_vars

----------------------------------------------------------------------------
(* Snapshots: claims *)

\* the memories created by others since the rows of a phase were fetched
CreatedByOthers(exec) == {id \in DOMAIN memories : id >= exec.firstNew} \ exec.created

\* a phase that has fetched its rows
Fetched(exec) ==
    /\ exec.phase \in {"consolidation", "linkUpdate", "transfer"}
    /\ exec.pc # "fetch"

SnapshotOnly(exec) ==
    Fetched(exec) =>
        /\ exec.read \cap CreatedByOthers(exec) = {}
        /\ \A l \in exec.written :
              l.sourceId \notin CreatedByOthers(exec) /\ l.targetId \notin CreatedByOthers(exec)

\* C17: a run of updateMemoryLinks, consolidateSimilarMemories or
\* transferKnowledge reads only the memories that were there when it fetched
\* its rows: a memory another operation created since is not read by the run
\* and is not an end of a link the run writes.
C17_SnapshotIsolation ==
    /\ \A e \in DOMAIN executions : SnapshotOnly(executions[e])
    /\ (lastOp.op = "execution" /\ lastOp.phase \in {"consolidation", "linkUpdate", "transfer"})
          => SnapshotOnly(lastOp)

----------------------------------------------------------------------------
(* MemoryService and the embedder: claims *)

\* C21: when generateEmbedding fails during createMemory the caller gets the
\* error, the embedder has been called once, and the store is as it was: no
\* memory row and no link was created by the call.
C21_EmbeddingFailureLeavesStore ==
    [][(lastOp'.op = "createMemory" /\ ~lastOp'.embedded) =>
          /\ ~lastOp'.ok
          /\ lastOp'.embedderCalls = 1
          /\ memories' = memories
          /\ links' = links
          /\ nextId' = nextId]_vars

\* A createMemory that failed at the embedder, on a store that holds linked
\* memories.
C21_Witness ==
    /\ lastOp.op = "createMemory"
    /\ ~lastOp.embedded /\ ~lastOp.ok
    /\ DOMAIN memories # {}
    /\ links # {}
    /\ nextId <= MaxMem

----------------------------------------------------------------------------
(* Stores for the update runs *)

\* Three memories that createMemory stored (the embedding a JSON text), with some
\* of these links: SEMANTIC ones into and out of the second memory, one
\* between the first and the last, a HIERARCHICAL one between the first two.
InitUpdate ==
    /\ memories \in [1..3 ->
                       {Row(1, <<atom>>, "EPISODIC", DefaultImportance, 0,
                            JsonStringify(Embed(atom)), StartDay, StartDay, NoMetadata) :
                          atom \in {"east", "north"}}]
    /\ links \in SUBSET {Link(2, 1, "SEMANTIC", 1000, 1000),
                         Link(3, 2, "SEMANTIC", 500, 500),
                         Link(3, 1, "SEMANTIC", 1000, 1000),
                         Link(1, 2, "HIERARCHICAL", 1000, 1000)}
    /\ nextId = 4
    /\ now = StartDay
    /\ similarityThreshold = EvolutionDefaultThreshold
    /\ lastOp = [op |-> "none", ok |-> TRUE]
    /\ groups = <<>>
    /\ purged = {}
    /\ executions = <<>>
    /\ fired = 0
    /\ cronService = NewCronService

NextUpdate ==
    \E memoryId \in 1..4, atom \in Atoms \cup {NoContent}, type \in NewTypes,
       embedderUp \in BOOLEAN :
        updateMemory(memoryId, atom, type, embedderUp)

SpecUpdate == InitUpdate /\ [][NextUpdate]_vars

----------------------------------------------------------------------------
(* updateMemory: claims *)

Touching(lnks, memoryId) ==
    {l \in lnks : l.linkType = "SEMANTIC"
                  /\ (l.sourceId = memoryId \/ l.targetId = memoryId)}

\* the SEMANTIC links of a memory as its stored embedding gives them: one to
\* every other memory at least as similar as the service's threshold
FromEmbedding(mems, memoryId) ==
    LET sim == [o \in DOMAIN mems |->
                   CosineOf[JsonParse(mems[memoryId].embedding),
                            JsonParse(mems[o].embedding)].value]
    IN {Link(memoryId, o, "SEMANTIC", sim[o], sim[o]) :
           o \in {x \in DOMAIN mems \ {memoryId} : sim[x] >= MemoryServiceThreshold}}

\* C22: an updateMemory that changes the content leaves, as the SEMANTIC links
\* touching the memory, exactly the links computed from the new embedding
\* (none of the old ones, in either direction), and leaves every other link as
\* it was; an updateMemory of a missing id fails and deletes no link.
C22_ContentChangeRecomputesLinks ==
    [][lastOp'.op = "updateMemory" =>
          /\ (lastOp'.ok /\ lastOp'.content) =>
                /\ Touching(links', lastOp'.id) = FromEmbedding(memories', lastOp'.id)
                /\ links' \ Touching(links', lastOp'.id) = links \ Touching(links, lastOp'.id)
          /\ lastOp'.id \notin DOMAIN memories => (~lastOp'.ok /\ links' = links)]_vars

\* The second memory had a SEMANTIC link into it and one out of it, and a
\* HIERARCHICAL link; its new content is similar to another memory only.
C22_Witness ==
    /\ lastOp.op = "updateMemory" /\ lastOp.ok /\ lastOp.content /\ lastOp.id = 2
    /\ memories[2].content = <<"diagonal">>
    /\ Link(1, 2, "HIERARCHICAL", 1000, 1000) \in links
    /\ Link(3, 1, "SEMANTIC", 1000, 1000) \in links
    /\ Link(2, 1, "SEMANTIC", 704, 704) \in links
    /\ \A l \in links : l.linkType = "SEMANTIC" => l.targetId # 2

----------------------------------------------------------------------------
(* Consolidation: the links written *)

\* C23: every HIERARCHICAL link a consolidation run creates goes from the
\* primary of a group to one of its secondaries, with strength 1.0 and, as its
\* similarity, the cosine similarity of that secondary to the group's seed;
\* also when the seed is not the primary and so is a secondary itself.
C23_HierarchicalLinkSimilarity ==
    [][(lastOp'.op = "consolidateSimilarMemories" /\ lastOp'.ok) =>
          \A l \in links' \ links :
              /\ l.linkType = "HIERARCHICAL"
              /\ l.strength = 1000
              /\ \E g \in Consolidated(groups') :
                    /\ l.sourceId = PrimaryOf(groups'[g]).id
                    /\ l.targetId \in GroupIds(groups'[g]) \ {l.sourceId}
                    /\ SimValue(l.similarity)
                          = calculateSimilarity(memories[l.targetId].embedding,
                                                Seed(groups'[g]).embedding)]_vars

----------------------------------------------------------------------------
(* Consolidation after a rejected write *)

\* three memories of one agent, as seeding stores them
RecoveryRows ==
    {Row(1, <<atom>>, "SEMANTIC", p[1], p[2],
         ArrayEmbedding(Embed(atom)), StartDay, StartDay, NoMetadata) :
        atom \in Atoms, p \in Profiles}

InitRecovery ==
    /\ memories \in [1..3 -> RecoveryRows]
    /\ links = {}
    /\ nextId = 4
    /\ now = StartDay
    /\ similarityThreshold \in {EvolutionDefaultThreshold, 990}
    /\ lastOp = [op |-> "none", ok |-> TRUE]
    /\ groups = <<>>
    /\ purged = {}
    /\ executions = <<>>
    /\ fired = 0
    /\ cronService = NewCronService

\* the first run has the update, the createMany or the updateMany of its
\* first group rejected, or none; the runs after it have none rejected
NextRecovery ==
    \/ /\ lastOp.op = "none"
       /\ \E write \in {"update", "createMany", "updateMany"} :
             consolidateSimilarMemoriesAborted(NoAgent, [group |-> 1, write |-> write])
    \/ consolidateSimilarMemories(NoAgent)

SpecRecovery == InitRecovery /\ [][NextRecovery]_vars

\* the last run stopped after the primary's update and before the archiving
AbortedAfterPrimary(op) ==
    /\ op.op = "consolidateSimilarMemories" /\ ~op.ok
    /\ "rejected" \in DOMAIN op
    /\ op.rejected \in {"createMany", "updateMany"}

\* the stores a run without a rejected write can leave, from the store mems
SingleRun(mems, lnks, threshold, day) ==
    {ConsolidateLoop([i \in 1..Len(order) |-> SnapshotRow(mems, order[i])], 1,
                     [mems |-> mems, lnks |-> lnks, processed |-> {},
                      groups |-> <<>>, consolidated |-> 0, failed |-> FALSE,
                      fault |-> NoFault],
                     threshold, day).mems :
        order \in ImportanceOrders(mems, ConsolidationCandidates(mems, NoAgent))}

\* C24: when a run stops on a rejected write after a group's primary was
\* updated and before its secondaries were archived, a second run that
\* completes leaves that primary with the access count and the importance a
\* single run without the rejection gives it.
C24_RerunAddsNothingTwice ==
    [][(/\ AbortedAfterPrimary(lastOp)
        /\ lastOp'.op = "consolidateSimilarMemories" /\ lastOp'.ok)
       => LET primary == PrimaryOf(groups[Len(groups)]).id
          IN \E single \in SingleRun(lastOp.before, {}, similarityThreshold, now) :
                /\ memories'[primary].accessCount = single[primary].accessCount
                /\ memories'[primary].importance = single[primary].importance]_vars

----------------------------------------------------------------------------
(* The stored embeddings *)

\* the memories that hold an embedding
Embedded(mems) == {id \in DOMAIN mems : mems[id].embedding.repr # "null"}

\* C25: the embeddings in the store all have one representation and one
\* dimension, whichever of createMemory, updateMemory, transferKnowledge and
\* the seeding wrote them, so that calculateSimilarity on two of them, as
\* consolidateSimilarMemories, updateMemoryLinks and transferKnowledge call
\* it, does not throw for unequal dimensions.
C25_OneRepresentation ==
    \A a, b \in Embedded(memories) :
        /\ memories[a].embedding.repr = memories[b].embedding.repr
        /\ ~calculateSimilarity(memories[a].embedding, memories[b].embedding).throws

----------------------------------------------------------------------------
(* Decay and consolidation runs, one after the other *)

\* importance and access count: two decay runs above the archive threshold,
\* never read or read three times; one run and a half above it and read
\* three times; low and read once long ago
ForestRows ==
    {Row(1, <<atom>>, "SEMANTIC", p[1], p[2],
         ArrayEmbedding(Embed(atom)), p[3], p[3], NoMetadata) :
        atom \in Atoms,
        p \in {<<120, 0, StartDay>>, <<120, 3, StartDay>>, <<115, 3, StartDay>>,
              <<30, 1, OldDay>>}}

InitForest ==
    /\ memories \in [1..3 -> ForestRows]
    /\ links = {}
    /\ nextId = 4
    /\ now = StartDay
    /\ similarityThreshold = EvolutionDefaultThreshold
    /\ lastOp = [op |-> "none", ok |-> TRUE]
    /\ groups = <<>>
    /\ purged = {}
    /\ executions = <<>>
    /\ fired = 0
    /\ cronService = NewCronService

NextForest ==
    \/ decayMemories
    \/ consolidateSimilarMemories(NoAgent)

SpecForest == InitForest /\ [][NextForest]_vars

\* the HIERARCHICAL links
Hierarchical(lnks) == {l \in lnks : l.linkType = "HIERARCHICAL"}

\* the memories reached from those of S along at most n HIERARCHICAL links
RECURSIVE Below(_, _, _)
Below(lnks, S, n) ==
    IF n = 0 THEN S
    ELSE Below(lnks, S \cup {l.targetId : l \in {k \in Hierarchical(lnks) : k.sourceId \in S}},
               n - 1)

\* every memory is the target of at most one HIERARCHICAL link and no
\* memory is below itself
IsForest(lnks) ==
    /\ \A l, k \in Hierarchical(lnks) : l.targetId = k.targetId => l = k
    /\ \A l \in Hierarchical(lnks) :
          l.sourceId \notin Below(lnks, {l.targetId}, Cardinality(Hierarchical(lnks)))

----------------------------------------------------------------------------
(* A decay run and a consolidation run that overlap *)

\* the store a whole decayMemories run leaves
DecayRun(mems, day) ==
    LET archived == ArchiveLowImportance(DecrementImportance(mems))
    IN Restrict(archived, DOMAIN archived \ PurgeIds(archived, day - MaxMemoryAge))

\* the stores the two runs leave when one starts after the other has returned
SequentialStores(mems, threshold, day) ==
    {DecayRun(c, day) : c \in SingleRun(mems, {}, threshold, day)}
    \cup SingleRun(DecayRun(mems, day), {}, threshold, day)

\* the step in which the second of two jobs, a and b, returns, both fulfilled
BothReturned(a, b) ==
    /\ fired' = 2 /\ executions # <<>> /\ executions' = <<>>
    /\ lastOp.op = "execution" /\ lastOp.ok
    /\ lastOp'.op = "execution" /\ lastOp'.ok
    /\ {lastOp.job, lastOp'.job} = {a, b}

\* C27: when a decayMemories run and a consolidateSimilarMemories run
\* overlap, no decrement is lost: the primary of the group ends with the
\* importance one of the two sequential orders gives it.
C27_NoLostDecrement ==
    [][(BothReturned("memory-decay", "memory-consolidation") /\ Consolidated(groups') # {})
       => \A g \in Consolidated(groups') :
            LET primary == PrimaryOf(groups'[g]).id
            IN \E seq \in SequentialStores(CronStore, similarityThreshold, now) :
                 /\ primary \in DOMAIN seq
                 /\ memories'[primary].importance = seq[primary].importance]_vars

----------------------------------------------------------------------------
(* Link runs and createMemory calls that overlap *)

\* two memories as the seeding script stores them, linked or not yet, or
\* two memories as createMemory stores them
RaceStores ==
    {[mems |-> rows, lnks |-> lnks] :
        rows \in [1..2 -> SeedRows], lnks \in {{}}} \cup
    {[mems |-> rows, lnks |-> SeedLinks(rows)] : rows \in [1..2 -> SeedRows]} \cup
    {[mems |-> [id \in 1..2 |-> [rows[id] EXCEPT !.embedding = JsonStringify(@.vec)]],
      lnks |-> {}] : rows \in [1..2 -> SeedRows]}

InitLinkRace ==
    /\ \E store \in RaceStores : memories = store.mems /\ links = store.lnks
    /\ nextId = 3
    /\ now = StartDay
    /\ similarityThreshold = EvolutionDefaultThreshold
    /\ lastOp = [op |-> "none", ok |-> TRUE]
    /\ groups = <<>>
    /\ purged = {}
    /\ executions = <<>>
    /\ fired = 0
    /\ cronService = NewCronService

\* link runs overlap each other and a createMemory call; the createMemory
\* calls come one after the other
NextLinkRace ==
    \/ Fire("memory-links")
    \/ /\ \A e \in DOMAIN executions : executions[e].job # CreateCall
       /\ Fire(CreateCall)
    \/ \E e \in 1..MaxRuns :
         \/ LinksFetch(e)
         \/ LinksFind(e)
         \/ LinksLookup(e)
         \/ LinksWrite(e)
         \/ \E atom \in {"east", "north"} : CreateRow(e, atom)
         \/ CreateFind(e)
         \/ CreateLink(e)

SpecLinkRace == InitLinkRace /\ [][NextLinkRace]_vars

\* the SEMANTIC links that join a and b, whatever their direction
Joining(lnks, a, b) ==
    {l \in lnks : l.linkType = "SEMANTIC" /\ {l.sourceId, l.targetId} = {a, b}}

----------------------------------------------------------------------------
(* Transfer: the memories one run inserts *)

\* two or three memories of the two agents, of contents that are similar
\* (east and diagonal, diagonal and north) or not (east and north)
DedupRows ==
    {Row(1, <<atom>>, type, 900, 0, ArrayEmbedding(Embed(atom)),
         StartDay, StartDay, NoMetadata) :
        atom \in Atoms, type \in TransferTypes}

InitDedup ==
    /\ \E n \in 2..3 :
        /\ \E rows \in [1..n -> DedupRows], owner \in [1..n -> {1, 2}] :
              memories = [id \in 1..n |-> [rows[id] EXCEPT !.agentId = owner[id]]]
        /\ nextId = n + 1
    /\ links = {}
    /\ now = StartDay
    /\ similarityThreshold = EvolutionDefaultThreshold
    /\ lastOp = [op |-> "none", ok |-> TRUE]
    /\ groups = <<>>
    /\ purged = {}
    /\ executions = <<>>
    /\ fired = 0
    /\ cronService = NewCronService

NextDedup ==
    \E sourceAgentId \in {1, 2}, targetAgentId \in {1, 2} :
        transferKnowledge(sourceAgentId, targetAgentId, TRUE)

SpecDedup == InitDedup /\ [][NextDedup]_vars

\* the embeddings the run computes for the contents of a and b reach the
\* threshold
SimilarContents(mems, a, b, threshold) ==
    AtLeast(calculateSimilarity(ArrayEmbedding(generateEmbedding(mems[a].content)),
                                ArrayEmbedding(generateEmbedding(mems[b].content))),
            threshold)

\* the pairs of source memories of one type and similar contents, in the
\* order the run examines them
SimilarSources(mems, sourceAgentId, threshold) ==
    {p \in WorthTransferring(mems, sourceAgentId) \X WorthTransferring(mems, sourceAgentId) :
        /\ p[1] < p[2]
        /\ mems[p[1]].type = mems[p[2]].type
        /\ SimilarContents(mems, p[1], p[2], threshold)}

\* C29 as stated: of two source memories of one type whose similarity
\* reaches the threshold, a transferKnowledge run inserts the first examined
\* only, never the second.
C29_OnlyFirstInserted ==
    [][lastOp'.op = "transferKnowledge"
       => \A p \in SimilarSources(memories, lastOp'.sourceAgentId, similarityThreshold) :
            CopiesOf(memories, memories', p[2]) = {}]_vars

\* C29: the memories one transferKnowledge run inserts are pairwise
\* dissimilar within a type, and of two source memories of one type whose
\* similarity reaches the threshold at most one is inserted: the second is
\* not when the first is.
C29_InsertedPairwiseDissimilar ==
    [][lastOp'.op = "transferKnowledge"
       => /\ \A n, m \in Inserted(memories, memories') :
                (n # m /\ memories'[n].type = memories'[m].type)
                   => ~AtLeast(calculateSimilarity(memories'[n].embedding,
                                                   memories'[m].embedding),
                               similarityThreshold)
          /\ \A p \in SimilarSources(memories, lastOp'.sourceAgentId, similarityThreshold) :
                CopiesOf(memories, memories', p[1]) # {}
                    => CopiesOf(memories, memories', p[2]) = {}]_vars

\* agent 1 has east and diagonal, of one type; the run to agent 2 has
\* returned with a copy of the first and none of the second
C29_Witness ==
    /\ TransferReturned
    /\ lastOp.sourceAgentId = 1 /\ lastOp.targetAgentId = 2
    /\ lastOp.transferred = 1 /\ lastOp.totalSourceMemories = 2
    /\ DOMAIN memories = 1..3
    /\ memories[1].content = <<"east">> /\ memories[2].content = <<"diagonal">>
    /\ memories[1].type = memories[2].type
    /\ memories[3].content = <<"east">>
    /\ <<"originalMemoryId", 1>> \in memories[3].metadata

----------------------------------------------------------------------------
(* CronService: the registry *)

\* the service is started and stopped while the decay task ticks and its
\* executions go on
NextCronService ==
    \/ start
    \/ stop
    \/ \E i \in 1..(MaxStarts * Len(StartOrder)) :
          CronTick(i) /\ cronService.tasks[i].name = "memory-decay"
    \/ \E e \in 1..MaxRuns : DecayDecrement(e) \/ DecayArchive(e) \/ DecayPurge(e)

SpecCronService == InitCron /\ [][NextCronService]_vars

\* the tasks the registry holds
Registered(cs) == {cs.jobs[name] : name \in DOMAIN cs.jobs}

\* C30: after any sequence of start() and stop() calls the registry holds
\* exactly the jobs memory-decay, memory-consolidation, memory-links and
\* full-evolution when isRunning is true and is empty when it is false; no
\* job name is registered twice; every task that is no longer in the
\* registry has been stopped; and start() on a running service and stop()
\* on a stopped one change nothing.
C30_RegistryMatchesRunning ==
    /\ [](/\ cronService.isRunning => DOMAIN cronService.jobs = CronJobs
          /\ ~cronService.isRunning => DOMAIN cronService.jobs = {}
          /\ \A i, j \in DOMAIN cronService.tasks :
                (/\ i # j
                 /\ cronService.tasks[i].running /\ cronService.tasks[j].running)
                   => cronService.tasks[i].name # cronService.tasks[j].name
          /\ \A name \in DOMAIN cronService.jobs :
                cronService.tasks[cronService.jobs[name]].name = name
          /\ \A i \in DOMAIN cronService.tasks :
                i \notin Registered(cronService) => ~cronService.tasks[i].running)
    /\ [][(\/ lastOp'.op = "start" /\ cronService.isRunning
           \/ lastOp'.op = "stop" /\ ~cronService.isRunning)
          => cronService' = cronService]_vars

\* the service was started, stopped and started again, and start() was then
\* called on the running service: the four tasks of the first start are
\* stopped, those of the second are registered, and the decay task of the
\* second has ticked
C30_Witness ==
    /\ lastOp.op = "start" /\ lastOp.wasRunning
    /\ cronService.isRunning
    /\ Len(cronService.tasks) = 2 * Len(StartOrder)
    /\ Registered(cronService) = (Len(StartOrder) + 1)..(2 * Len(StartOrder))
    /\ fired > 0

====
